---------------------------- MODULE Spec2Model ----------------------------
(***************************************************************************)
(* State-machine model of the cold-chain telemetry processor (index.js).   *)
(*                                                                         *)
(* Units.  Time is in milliseconds, as in the source (Date.now()).         *)
(* Temperatures are in tenths of a degree Celsius (-5.0 C is -50),         *)
(* humidity in whole percent, and every output of the thermal analyzer     *)
(* (slope, R2, variance, acceleration, jerk) in thousandths (0.15 is 150). *)
(*                                                                         *)
(* The thermal analyzer.  analisarTendencia keeps the per-sensor sample    *)
(* window and then runs floating-point regressions over it.  The window    *)
(* (which samples are kept, when the result is `ready') is modelled as the *)
(* code computes it.  The regression outputs are functions of the sample   *)
(* values, which the environment chooses: the model draws them from a      *)
(* bounded set of analyzer results lying on either side of the thresholds  *)
(* the detectors compare them with.  The window therefore records the      *)
(* timestamps of its samples; the sample temperatures feed only the        *)
(* regressions.                                                            *)
(***************************************************************************)
EXTENDS Integers, Sequences, FiniteSets, TLC

(***************************************************************************)
(* JavaScript values that have no TLA+ counterpart.                        *)
(***************************************************************************)
\* `undefined' (a missing property, a Map miss)
Undefined == 0 - 1000000
\* NaN: every comparison with it is false
NaN == 0 - 2000000

\* x || d
OrElse(x, d) == IF x = Undefined \/ x = 0 \/ x = NaN THEN d ELSE x
\* a > b, a < b, a >= b, a <= b on numbers that may be NaN or undefined
GT(a, b) == a # NaN /\ b # NaN /\ a # Undefined /\ b # Undefined /\ a > b
LT(a, b) == a # NaN /\ b # NaN /\ a # Undefined /\ b # Undefined /\ a < b
GE(a, b) == a # NaN /\ b # NaN /\ a # Undefined /\ b # Undefined /\ a >= b
LE(a, b) == a # NaN /\ b # NaN /\ a # Undefined /\ b # Undefined /\ a <= b
Abs(x) == IF x < 0 THEN 0 - x ELSE x

Range(s) == { s[i] : i \in DOMAIN s }

\* A Map as a function on the keys it holds.
MapSet(m, k, v) == [ x \in (DOMAIN m) \cup {k} |-> IF x = k THEN v ELSE m[x] ]
MapDelete(m, k) == [ x \in (DOMAIN m) \ {k} |-> m[x] ]
EmptyMap == [ x \in {} |-> Undefined ]

(***************************************************************************)
(* 1. Constants and tuning (index.js 18-73)                                *)
(***************************************************************************)
\* 'BC:57:29:1E:2F:2C'
HARDCODED_BLOCKLIST ==
    { << "B","C",":","5","7",":","2","9",":","1","E",":","2","F",":","2","C" >> }

ENV_TEMP_MAX_NORMAL == -50
ENV_TEMP_MIN_GLOBAL == -300
ENV_TEMP_MAX_HIGH_TRAFFIC == -20
DAYS_HIGH_TRAFFIC == { 3, 4 }

DB_MIN_VAR_TEMP == 2
DB_MIN_VAR_HUM == 2
DB_HEARTBEAT_MS == 600000

PREDICT_WINDOW_MINS == 20
MIN_DATA_POINTS == 10
DATA_SAMPLE_INTERVAL_SEC == 10
DEFROST_CYCLE_MIN_DURATION_MS == 300000
DEFROST_CYCLE_MAX_DURATION_MS == 3600000
MIN_DEFROST_DURATION_BEFORE_END_MS == 120000

TUNING_NORMAL ==
    [ DOOR_ACCEL |-> 300, DOOR_SLOPE |-> 900, DEFROST_MIN_R2 |-> 850,
      DEFROST_MIN_SLOPE |-> 150, DEFROST_VARIANCE_THRESHOLD |-> 500,
      DOOR_VARIANCE_THRESHOLD |-> 1200 ]

TUNING_ULTRA ==
    [ DOOR_ACCEL |-> 600, DOOR_SLOPE |-> 1500, DEFROST_MIN_R2 |-> 900,
      DEFROST_MIN_SLOPE |-> 250, DEFROST_VARIANCE_THRESHOLD |-> 800,
      DOOR_VARIANCE_THRESHOLD |-> 1500 ]

ALERT_SOAK_TIME_MS == 600000
CALL_PERSISTENCE_MS == 1800000
EXTREME_DEVIATION_C == 100
GATEWAY_TIMEOUT_MS == 900000

(***************************************************************************)
(* 5. formatarMac, calcularBateria (index.js 217-222)                      *)
(***************************************************************************)
\* the characters `.' does not match in a regular expression
LineTerminators == { "\n", "\r" }

RECURSIVE InsertColons(_)
\* mac.replace(/(.{2})(?=.)/g, '$1:'): a colon after every two characters
\* that are followed by at least one more character, the matches taken
\* from left to right (`.' matches any character but a line terminator)
InsertColons(s) ==
    IF Len(s) <= 2 THEN s
    ELSE IF { s[1], s[2], s[3] } \cap LineTerminators = {}
    THEN << s[1], s[2], ":" >> \o InsertColons(SubSeq(s, 3, Len(s)))
    ELSE << s[1] >> \o InsertColons(Tail(s))

\* formatarMac without the test for a colon
formatarMac_SemTeste(mac) == InsertColons(mac)

\* mac?.includes(':') ? mac : mac?.replace(/(.{2})(?=.)/g, '$1:')
\* (a missing mac is the empty string: both give a falsy result)
formatarMac(mac) ==
    IF ":" \in Range(mac) THEN mac
    ELSE InsertColons(mac)

\* Math.round(x) for x = num / den, den > 0: floor(x + 1/2)
RoundDiv(num, den) == (2 * num + den) \div (2 * den)
Min2(a, b) == IF a < b THEN a ELSE b
Max2(a, b) == IF a > b THEN a ELSE b

\* calcularBateria without Math.min and Math.max
calcularBateria_SemLimites(mV) ==
    IF mV = Undefined \/ mV = 0 THEN 0
    ELSE RoundDiv((mV - 2500) * 100, 3600 - 2500)

\* if (!mV) return 0; Math.min(100, Math.max(0, Math.round(...)))
calcularBateria(mV) ==
    IF mV = Undefined \/ mV = 0 THEN 0
    ELSE Min2(100, Max2(0, RoundDiv((mV - 2500) * 100, 3600 - 2500)))


(***************************************************************************)
(* The environment: MAC addresses, store rows, readings, analyzer results. *)
(***************************************************************************)
\* SQL NULL in a row returned by the store
Null == 0 - 3000000
Falsy(x) == x = Undefined \/ x = Null \/ x = 0 \/ x = NaN

\* dmac / gmac as the gateways send them (hex, no colons)
S1raw == << "A","C","2","3","3","F","A","0","0","0","0","1" >>
S2raw == << "A","C","2","3","3","F","A","0","0","0","0","2" >>
SUraw == << "A","C","2","3","3","F","A","0","0","0","0","9" >>
SBraw == << "B","C","5","7","2","9","1","E","2","F","2","C" >>
G1raw == << "A","C","2","3","3","F","C","0","0","0","0","1" >>
G2raw == << "A","C","2","3","3","F","C","0","0","0","0","2" >>

\* the monitored sensor, its paired physical door sensor, an unknown sensor,
\* the blocklisted device and a gateway, in canonical form
S1 == formatarMac(S1raw)
S2 == formatarMac(S2raw)
SU == formatarMac(SUraw)
SB == formatarMac(SBraw)
G1 == formatarMac(G1raw)
G2 == formatarMac(G2raw)

\* sensor_configs rows (display_name, which only labels log lines and
\* alerts, is left out; a null sensor_porta_vinculado is the empty string)
Row(mac, vinc, tmax, tmin, hmax, hmin, manut) ==
    [ mac |-> mac, sensor_porta_vinculado |-> vinc, temp_max |-> tmax,
      temp_min |-> tmin, hum_max |-> hmax, hum_min |-> hmin,
      em_manutencao |-> manut ]

RowS2 == Row(S2raw, << >>, Null, Null, Null, Null, FALSE)
RowSB == Row(SBraw, << >>, -50, -100, 80, Null, FALSE)
RowNormal == Row(S1raw, S2raw, -50, -100, 80, 30, FALSE)
RowManut == Row(S1raw, S2raw, -50, -100, 80, 30, TRUE)
RowUltra == Row(S1raw, S2raw, -50, -200, 80, 30, FALSE)

\* what SELECT ... FROM sensor_configs may return
TabelaNormal == { RowNormal, RowS2, RowSB }
TabelaManut == { RowManut, RowS2, RowSB }
TabelaUltra == { RowUltra, RowS2, RowSB }

\* Results of the thermal analyzer on a ready window.  isRisingPhase,
\* isFallingPhase, risingFit and fallingFit are the intermediate values of
\* analisarCicloDegelo; slopeChange is segmentAnalysis.slopeChange, or
\* Undefined when segmentAnalysis is null.
Stats(slope, r2, variance, acceleration, jerk, rising, falling, rfit, ffit, sc) ==
    [ slope |-> slope, r2 |-> r2, variance |-> variance,
      acceleration |-> acceleration, jerk |-> jerk,
      isRisingPhase |-> rising, isFallingPhase |-> falling,
      risingFit |-> rfit, fallingFit |-> ffit, slopeChange |-> sc ]

\* identical samples: zero variance, so the correlation is 0/0
IA_Flat == Stats(0, NaN, 0, 0, 0, FALSE, TRUE, 0, 0, Undefined)
\* steady refrigeration with a slight, regular drift
IA_Stable == Stats(49, 800, 100, 0, 0, TRUE, FALSE, 49, 0, Undefined)
\* slow linear, low-variance rise (a defrost)
IA_Rise == Stats(400, 950, 300, 0, 0, TRUE, FALSE, 400, 0, Undefined)
\* moderate rise, too irregular for a defrost, too slow for a door
IA_Trend == Stats(400, 700, 300, 0, 0, TRUE, FALSE, 400, 0, Undefined)
\* steeper irregular rise
IA_Steep == Stats(800, 700, 600, 100, 0, TRUE, FALSE, 800, 0, Undefined)
\* abrupt turbulent rise (a door opening)
IA_Spike == Stats(1600, 500, 1600, 700, 600, TRUE, FALSE, 1600, 0, 1200)
\* regular cooling (recovery)
IA_Cool == Stats(0 - 400, 800, 300, 0 - 200, 0, FALSE, TRUE, 0, 0 - 400, Undefined)

\* steep, clean linear rise: the start of a defrost by its regularity, a door
\* opening by its slope
IA_Ramp == Stats(1000, 950, 300, 0, 0, TRUE, FALSE, 1000, 0, Undefined)
\* clean overall rise whose maximum lies early in the window, the
\* temperature falling since
IA_Amb == Stats(400, 950, 300, 0, 0, FALSE, TRUE, 0, 0 - 400, Undefined)
\* steep rise over a short window: small spread, too irregular for a defrost
IA_Surge == Stats(1000, 800, 120, 0, 0, TRUE, FALSE, 1000, 0, Undefined)

Analises == { IA_Flat, IA_Stable, IA_Rise, IA_Trend, IA_Steep, IA_Spike, IA_Cool }
\* those that decide the alerts, and those that decide the door
AnalisesAlerta == { IA_Stable, IA_Rise, IA_Trend, IA_Steep, IA_Cool }
AnalisesPorta == { IA_Stable, IA_Rise, IA_Spike, IA_Cool }
\* those that decide the defrost cycle together with the door
AnalisesDegelo == { IA_Stable, IA_Rise, IA_Cool, IA_Ramp, IA_Amb, IA_Surge }

\* one entry of a gateway's `obj' list
Entry(dmac, temp, humidity) ==
    [ dmac |-> dmac, type |-> 1, temp |-> temp, humidity |-> humidity,
      vbatt |-> 3000, rssi |-> 0 - 60 ]

(***************************************************************************)
(* 3. State in memory (index.js 105-116), the store, and observers         *)
(***************************************************************************)
VARIABLES
    now,                        \* Date.now()
    lastReadings,               \* Map mac -> {ts, db_temp, db_hum, db_ts}
    alertControl,               \* Map mac -> control record
    sensorHistory,              \* Map mac -> window (sample timestamps)
    alertWatchlist,             \* Map mac -> {first_seen, msg}
    gatewayHeartbeats,          \* Map gmac -> {last_seen, source}
    configCache,                \* Map mac -> sensor_configs row
    secondarySensorsBlocklist,  \* Set of paired door-sensor MACs
    dbTelemetryBuffer,
    dbDoorBuffer,
    n8nAlertBuffer,
    doorLogs,                   \* store: latest door_logs row per sensor
    emVoo,                      \* inserts and POSTs the timers are awaiting
    processo,                   \* the process: running, in shutdown(), or exited
    servico,                    \* a SensorService instance (src/services) and its watchlist
    chamada,                    \* the last call of a formatter: argument and result
    obs                         \* observer: facts about the last reading / alert

vars == << now, lastReadings, alertControl, sensorHistory, alertWatchlist,
           gatewayHeartbeats, configCache, secondarySensorsBlocklist,
           dbTelemetryBuffer, dbDoorBuffer, n8nAlertBuffer, doorLogs, emVoo,
           processo, servico, chamada, obs >>


(***************************************************************************)
(* 6. Thermal analysis (index.js 427-628)                                  *)
(***************************************************************************)
\* a sample exactly as old as the window's span is kept
JanelaDeslizante_Inclusiva(history, t) ==
    SelectSeq(history, LAMBDA ts : ts >= t - PREDICT_WINDOW_MINS * 60 * 1000)
\* history.filter(h => h.ts > windowStart)
JanelaDeslizante(history, t) ==
    SelectSeq(history, LAMBDA ts : ts > t - PREDICT_WINDOW_MINS * 60 * 1000)

\* history.length === 0 || timeSinceLastSample >= DATA_SAMPLE_INTERVAL_SEC * 1000
AceitaAmostra(history, t) ==
    \/ Len(history) = 0
    \/ t - history[Len(history)] >= DATA_SAMPLE_INTERVAL_SEC * 1000

\* the window of `mac' after analisarTendencia ran at time t
NovaJanela(mac, t) ==
    LET history == IF mac \in DOMAIN sensorHistory THEN sensorHistory[mac] ELSE << >>
    IN  IF AceitaAmostra(history, t)
        THEN JanelaDeslizante(Append(history, t), t)
        ELSE history

\* sensorHistory after analisarTendencia ran: the Map is written only when
\* the sample is accepted
HistoricoApos(mac, t) ==
    LET history == IF mac \in DOMAIN sensorHistory THEN sensorHistory[mac] ELSE << >>
    IN  IF AceitaAmostra(history, t)
        THEN MapSet(sensorHistory, mac, NovaJanela(mac, t))
        ELSE sensorHistory

\* analisarCicloDegelo: slopes of the two phases, pattern and phase tag
analisarCicloDegelo(ia, isUltra) ==
    LET risingSlope == IF ia.isRisingPhase THEN ia.risingFit ELSE 0
        fallingSlope == IF ia.isFallingPhase THEN ia.fallingFit ELSE 0
    IN  [ isDefrostPattern |->
              /\ risingSlope > (IF isUltra THEN 200 ELSE 150)
              /\ fallingSlope < 0 - 100,
          risingSlope |-> risingSlope,
          fallingSlope |-> fallingSlope,
          phase |-> IF ia.isRisingPhase /\ ~ia.isFallingPhase THEN "RISING"
                    ELSE IF ia.isFallingPhase /\ ~ia.isRisingPhase THEN "FALLING"
                    ELSE IF ia.isRisingPhase /\ ia.isFallingPhase THEN "PEAK"
                    ELSE "UNKNOWN" ]

\* stdError < thr, with stdError = sqrt(mean squared residual) and the mean
\* squared residual of a least-squares line = variance * (1 - R2)
StdErrorLT(ia, thr) ==
    IF ia.variance = 0 THEN 0 < thr
    ELSE ia.r2 # NaN /\ ia.variance * (1000 - ia.r2) < thr * thr

\* the result of analisarTendencia(mac, temp, isUltra) at time t, the
\* regressions giving `ia'
analisarTendencia(mac, t, isUltra, ia) ==
    LET history == NovaJanela(mac, t)
    IN  IF Len(history) < MIN_DATA_POINTS
        THEN [ ready |-> FALSE, count |-> Len(history) ]
        ELSE [ ready |-> TRUE, slope |-> ia.slope, acceleration |-> ia.acceleration,
               jerk |-> ia.jerk, variance |-> ia.variance, r2 |-> ia.r2,
               cicloDegelo |-> analisarCicloDegelo(ia, isUltra),
               slopeChange |-> ia.slopeChange, ia |-> ia,
               history_length |-> Len(history) ]


(***************************************************************************)
(* 7. Alerts and states: verificarSensor (index.js 633-1224)               *)
(***************************************************************************)
\* alertControl.get(sensorMac) || { last_virtual_state: false, is_defrosting: false }
\* Fields the code only logs or reports (defrost_peak_temp, defrost_end_ts,
\* last_analysis_ts, last_porta_state_loaded_ts, last_porta_state_logged,
\* defrost_just_started, which is set and cleared within one call) are left out.
CtrlDefault ==
    [ last_virtual_state |-> FALSE, is_defrosting |-> FALSE,
      defrost_start_ts |-> Undefined, defrost_start_temp |-> Undefined,
      last_variance |-> Undefined, last_alert_sent_ts |-> Undefined ]

\* config.temp_min && config.temp_min < -15
isUltra(config) == ~Falsy(config.temp_min) /\ config.temp_min < 0 - 150
TUNING(config) == IF isUltra(config) THEN TUNING_ULTRA ELSE TUNING_NORMAL

\* moment(now).tz('America/Sao_Paulo').day(): UTC-3, day 0 of the epoch a Thursday
diaHoje(t) == (((t - 3 * 3600000) \div 86400000) + 4) % 7

LIMIT_TEMP_MAX(config, t) ==
    IF config.temp_max # Null THEN config.temp_max
    ELSE IF diaHoje(t) \in DAYS_HIGH_TRAFFIC THEN ENV_TEMP_MAX_HIGH_TRAFFIC
    ELSE ENV_TEMP_MAX_NORMAL
LIMIT_TEMP_MIN(config) ==
    IF config.temp_min # Null THEN config.temp_min ELSE ENV_TEMP_MIN_GLOBAL

\* criteria1 || criteria2 || criteria3 of the defrost start (lines 687-699)
InicioDegelo(st, config) ==
    LET T == TUNING(config)
        isRising == st.slope > T.DEFROST_MIN_SLOPE
        isStableRise == /\ StdErrorLT(st.ia, T.DEFROST_VARIANCE_THRESHOLD)
                        /\ GT(st.r2, T.DEFROST_MIN_R2)
        hasLowVariance == st.variance < T.DEFROST_VARIANCE_THRESHOLD
        criteria1 == isRising /\ isStableRise /\ hasLowVariance
        criteria2 == /\ st.cicloDegelo.isDefrostPattern
                     /\ st.cicloDegelo.phase = "RISING"
                     /\ st.cicloDegelo.risingSlope > T.DEFROST_MIN_SLOPE
        criteria3 == /\ isUltra(config) /\ isRising /\ GT(st.r2, 880)
                     /\ st.slope > 300 /\ StdErrorLT(st.ia, 600)
    IN  criteria1 \/ criteria2 \/ criteria3

\* the end criteria without the safety timeout (criteria3)
FimDegelo_SemTimeout(ctrl, st, val, t, config) ==
    LET defrostDurationRecalc == t - OrElse(ctrl.defrost_start_ts, t)
        isInRisingPhase == st.cicloDegelo.phase = "RISING"
        criteria1 == st.slope < 0 - 300 /\ GT(st.r2, 700)
        criteria2 == /\ st.cicloDegelo.phase = "FALLING" /\ ~isInRisingPhase
                     /\ st.cicloDegelo.fallingSlope < 0 - 150
        tempRecovered ==
            LE(val, OrElse(ctrl.defrost_start_temp, val)
                       + (IF isUltra(config) THEN 30 ELSE 20))
        criteria4 == /\ tempRecovered
                     /\ defrostDurationRecalc > DEFROST_CYCLE_MIN_DURATION_MS
                     /\ st.slope < 0 - 100 /\ ~isInRisingPhase
    IN  criteria1 \/ criteria2 \/ criteria4

\* criteria1 || ... || criteria4 of the defrost end (lines 768-790)
FimDegelo(ctrl, st, val, t, config) ==
    LET defrostDurationRecalc == t - OrElse(ctrl.defrost_start_ts, t)
        isInRisingPhase == st.cicloDegelo.phase = "RISING"
        criteria1 == st.slope < 0 - 300 /\ GT(st.r2, 700)
        criteria2 == /\ st.cicloDegelo.phase = "FALLING" /\ ~isInRisingPhase
                     /\ st.cicloDegelo.fallingSlope < 0 - 150
        criteria3 == defrostDurationRecalc > DEFROST_CYCLE_MAX_DURATION_MS
        tempRecovered ==
            LE(val, OrElse(ctrl.defrost_start_temp, val)
                       + (IF isUltra(config) THEN 30 ELSE 20))
        criteria4 == /\ tempRecovered
                     /\ defrostDurationRecalc > DEFROST_CYCLE_MIN_DURATION_MS
                     /\ st.slope < 0 - 100 /\ ~isInRisingPhase
    IN  criteria1 \/ criteria2 \/ criteria3 \/ criteria4

\* the end criteria are tested on every analysed sample of a defrosting
\* sensor, the one that started the defrost included
DegeloApos_SemMinimo(ctrl, st, val, t, config) ==
    LET iniciado == IF ~ctrl.is_defrosting /\ InicioDegelo(st, config)
                    THEN [ ctrl EXCEPT !.is_defrosting = TRUE,
                                       !.defrost_start_ts = t,
                                       !.defrost_start_temp = val ]
                    ELSE ctrl
    IN  IF iniciado.is_defrosting /\ FimDegelo(iniciado, st, val, t, config)
        THEN [ iniciado EXCEPT !.is_defrosting = FALSE,
                               !.defrost_start_ts = Undefined,
                               !.defrost_start_temp = Undefined ]
        ELSE iniciado

\* the control record after the defrost start / end detection (lines 687-829)
DegeloApos(ctrl, st, val, t, config) ==
    IF ~ctrl.is_defrosting
    THEN IF InicioDegelo(st, config)
         THEN \* started now: defrost_just_started skips the end check
              [ ctrl EXCEPT !.is_defrosting = TRUE, !.defrost_start_ts = t,
                            !.defrost_start_temp = val ]
         ELSE ctrl
    ELSE IF t - OrElse(ctrl.defrost_start_ts, t) < MIN_DEFROST_DURATION_BEFORE_END_MS
         THEN ctrl
         ELSE IF FimDegelo(ctrl, st, val, t, config)
              THEN [ ctrl EXCEPT !.is_defrosting = FALSE,
                                 !.defrost_start_ts = Undefined,
                                 !.defrost_start_temp = Undefined ]
              ELSE ctrl


\* the door detection does not look at is_defrosting
PortaApos_IgnoraDegelo(ctrl, st, val, t, config) ==
    LET T == TUNING(config)
        tempDentroRange ==
            GE(val, LIMIT_TEMP_MIN(config)) /\ LE(val, LIMIT_TEMP_MAX(config, t))
        tempEstavel == /\ Abs(st.slope) < 100
                       /\ 2 * st.variance < T.DOOR_VARIANCE_THRESHOLD
                       /\ GT(st.r2, 700)
        abre == \/ st.acceleration > T.DOOR_ACCEL
                \/ st.slope > T.DOOR_SLOPE
                \/ /\ st.variance > T.DOOR_VARIANCE_THRESHOLD
                   /\ st.slope > 500 /\ LT(st.r2, 600)
                \/ /\ st.slopeChange # Undefined /\ Abs(st.slopeChange) > 1000
                   /\ st.variance > T.DOOR_VARIANCE_THRESHOLD
                \/ Abs(st.jerk) > 500 /\ st.slope > 300
        prevVariance == OrElse(ctrl.last_variance, st.variance)
        fecha == \/ st.slope < 0 - 100 /\ GT(st.r2, 500)
                 \/ st.slope < 100 /\ st.acceleration < 0 - 100
                 \/ /\ 10 * st.variance < 7 * prevVariance
                    /\ 10 * st.variance < 8 * T.DOOR_VARIANCE_THRESHOLD
        aberta == IF ~ctrl.last_virtual_state THEN abre ELSE TRUE
    IN  IF tempDentroRange /\ tempEstavel THEN FALSE
        ELSE aberta /\ ~fecha

\* a stable temperature in range does not close the door
PortaApos_SemFaixa(ctrl, st, val, t, config) ==
    LET T == TUNING(config)
        abre == \/ st.acceleration > T.DOOR_ACCEL
                \/ st.slope > T.DOOR_SLOPE
                \/ /\ st.variance > T.DOOR_VARIANCE_THRESHOLD
                   /\ st.slope > 500 /\ LT(st.r2, 600)
                \/ /\ st.slopeChange # Undefined /\ Abs(st.slopeChange) > 1000
                   /\ st.variance > T.DOOR_VARIANCE_THRESHOLD
                \/ Abs(st.jerk) > 500 /\ st.slope > 300
        prevVariance == OrElse(ctrl.last_variance, st.variance)
        fecha == \/ st.slope < 0 - 100 /\ GT(st.r2, 500)
                 \/ st.slope < 100 /\ st.acceleration < 0 - 100
                 \/ /\ 10 * st.variance < 7 * prevVariance
                    /\ 10 * st.variance < 8 * T.DOOR_VARIANCE_THRESHOLD
        aberta == IF ~ctrl.last_virtual_state THEN abre ELSE TRUE
    IN  IF ctrl.is_defrosting THEN FALSE
        ELSE aberta /\ ~fecha

\* currentState after the virtual door detection (lines 833-974); ctrl is
\* the control record after the defrost detection
PortaApos(ctrl, st, val, t, config) ==
    LET T == TUNING(config)
        tempDentroRange ==
            GE(val, LIMIT_TEMP_MIN(config)) /\ LE(val, LIMIT_TEMP_MAX(config, t))
        tempEstavel == /\ Abs(st.slope) < 100
                       /\ 2 * st.variance < T.DOOR_VARIANCE_THRESHOLD
                       /\ GT(st.r2, 700)
        abre == \/ st.acceleration > T.DOOR_ACCEL
                \/ st.slope > T.DOOR_SLOPE
                \/ /\ st.variance > T.DOOR_VARIANCE_THRESHOLD
                   /\ st.slope > 500 /\ LT(st.r2, 600)
                \/ /\ st.slopeChange # Undefined /\ Abs(st.slopeChange) > 1000
                   /\ st.variance > T.DOOR_VARIANCE_THRESHOLD
                \/ Abs(st.jerk) > 500 /\ st.slope > 300
        prevVariance == OrElse(ctrl.last_variance, st.variance)
        fecha == \/ st.slope < 0 - 100 /\ GT(st.r2, 500)
                 \/ st.slope < 100 /\ st.acceleration < 0 - 100
                 \/ /\ 10 * st.variance < 7 * prevVariance
                    /\ 10 * st.variance < 8 * T.DOOR_VARIANCE_THRESHOLD
        aberta == IF ~ctrl.last_virtual_state THEN abre ELSE TRUE
    IN  IF ctrl.is_defrosting THEN FALSE
        ELSE IF tempDentroRange /\ tempEstavel THEN FALSE
        ELSE aberta /\ ~fecha

\* the door_logs record pushed on a state change (lines 988-998)
DoorRecord(sensorMac, gatewayMac, leitura, t, currentState) ==
    [ gateway_mac |-> gatewayMac, sensor_mac |-> sensorMac, timestamp_read |-> t,
      is_open |-> currentState, alarm_code |-> IF currentState THEN 1 ELSE 0,
      battery_percent |-> calcularBateria(leitura.vbatt), rssi |-> leitura.rssi ]

\* no problem found: mensagemProblema = null
SemProblema == [ msg |-> "NENHUM", prioridade |-> "ALTA", desvioExtremo |-> FALSE ]
Problema(msg, prioridade, desvioExtremo) ==
    [ msg |-> msg, prioridade |-> prioridade, desvioExtremo |-> desvioExtremo ]

\* val > LIMIT_TEMP_MAX + defrostTolerance + 5.0, or val < LIMIT_TEMP_MIN - 5.0
ExtremoEmDegelo(val, t, config) ==
    \/ GT(val, LIMIT_TEMP_MAX(config, t) + (IF isUltra(config) THEN 250 ELSE 150) + 50)
    \/ LT(val, LIMIT_TEMP_MIN(config) - 50)

\* the alert logic of a ready window during a defrost (lines 1015-1052)
ProblemaEmDegelo(val, t, config) ==
    IF GT(val, LIMIT_TEMP_MAX(config, t) + (IF isUltra(config) THEN 250 ELSE 150) + 50)
    THEN Problema("DEGELO_ANORMAL", "ALTA", TRUE)
    ELSE IF LT(val, LIMIT_TEMP_MIN(config) - 50)
    THEN Problema("TEMP_EXTREMA_DEGELO", "ALTA", FALSE)
    ELSE SemProblema

\* hard limits, then the predictive alert, outside a defrost (lines 1056-1122)
ProblemaForaDegelo(st, val, t, config) ==
    LET MAX == LIMIT_TEMP_MAX(config, t)
        MIN == LIMIT_TEMP_MIN(config)
        limite ==
            IF LT(val, MIN)
            THEN Problema("TEMP_BAIXA", "ALTA", LT(val, MIN - EXTREME_DEVIATION_C))
            ELSE IF GT(val, MAX)
            THEN Problema("TEMP_ALTA", "ALTA", GT(val, MAX + EXTREME_DEVIATION_C))
            ELSE SemProblema
        \* in thousandths of a degree
        tempFutura15Min == val * 100 + st.slope * 15
        diferencaProjetada == tempFutura15Min - MAX * 100
        \* tempoRestante = (MAX - val) / slope, with slope > 0 here
        tempoRestanteOk == (MAX - val) * 100 > 0 /\ (MAX - val) * 100 < 20 * st.slope
    IN  IF /\ val # NaN /\ st.slope > 100 /\ GT(st.r2, 600)
           /\ ~st.cicloDegelo.isDefrostPattern /\ tempoRestanteOk
        THEN IF diferencaProjetada >= 10000
             THEN Problema("PREVISAO_CRITICA", "CRITICA", limite.desvioExtremo)
             ELSE IF diferencaProjetada >= 5000
             THEN Problema("PREVISAO", "PREDITIVA", limite.desvioExtremo)
             ELSE limite
        ELSE limite

\* humidity validation (lines 1139-1145), applied when there is no thermal problem
ProblemaUmidade(leitura, config) ==
    IF leitura.humidity = Undefined THEN "NENHUM"
    ELSE IF ~Falsy(config.hum_max) /\ leitura.humidity > config.hum_max THEN "UMID_ALTA"
    ELSE IF ~Falsy(config.hum_min) /\ leitura.humidity < config.hum_min THEN "UMID_BAIXA"
    ELSE "NENHUM"

\* prioridade === 'PREDITIVA' ? (ALERT_SOAK_TIME_MS / 2) : ALERT_SOAK_TIME_MS
soakNecessario(prioridade) ==
    IF prioridade = "PREDITIVA" THEN ALERT_SOAK_TIME_MS \div 2 ELSE ALERT_SOAK_TIME_MS

\* a cooldown of 5 minutes for the other priorities
cooldownEnvio_Curto(prioridade) ==
    IF prioridade = "PREDITIVA" THEN 60 * 60000 ELSE 5 * 60000
\* prioridade === 'PREDITIVA' ? 60*60000 : 15*60000
cooldownEnvio(prioridade) ==
    IF prioridade = "PREDITIVA" THEN 60 * 60000 ELSE 15 * 60000


\* Number(leitura.temp)
Val(leitura) == IF leitura.temp = Undefined THEN NaN ELSE leitura.temp

\* only the openings are queued
AposPorta_SoAberturas(sensorMac, leitura, gatewayMac, t, st, ctrl1, currentState) ==
    [ ctrl |-> [ ctrl1 EXCEPT
                   !.last_virtual_state = currentState,
                   !.last_variance = IF ctrl1.is_defrosting THEN @ ELSE st.variance ],
      door |-> IF currentState /\ ~ctrl1.last_virtual_state
               THEN Append(dbDoorBuffer,
                           DoorRecord(sensorMac, gatewayMac, leitura, t, currentState))
               ELSE dbDoorBuffer ]

\* lines 976-1009: the door event is queued and the control record saved
AposPorta(sensorMac, leitura, gatewayMac, t, st, ctrl1, currentState) ==
    [ ctrl |-> [ ctrl1 EXCEPT
                   !.last_virtual_state = currentState,
                   !.last_variance = IF ctrl1.is_defrosting THEN @ ELSE st.variance ],
      door |-> IF currentState # ctrl1.last_virtual_state
               THEN Append(dbDoorBuffer,
                           DoorRecord(sensorMac, gatewayMac, leitura, t, currentState))
               ELSE dbDoorBuffer ]

\* lines 831-1009, ctrl1 being the control record after the defrost detection
AposDegelo(sensorMac, leitura, gatewayMac, t, config, st, ctrl1) ==
    AposPorta(sensorMac, leitura, gatewayMac, t, st, ctrl1,
              PortaApos(ctrl1, st, Val(leitura), t, config))

\* lines 666-1009: defrost and door detection, which run on a ready window
\* only; gives the control record and the door queue they leave
EstadoTermico(sensorMac, leitura, gatewayMac, t, config, st, ctrl0) ==
    IF st.ready
    THEN AposDegelo(sensorMac, leitura, gatewayMac, t, config, st,
                    DegeloApos(ctrl0, st, Val(leitura), t, config))
    ELSE [ ctrl |-> ctrl0, door |-> dbDoorBuffer ]

\* the hard limits are tested on a window that is not ready too
ProblemaTermico_SemJanela(st, ctrl, val, t, config) ==
    IF ~st.ready
    THEN IF LT(val, LIMIT_TEMP_MIN(config))
         THEN Problema("TEMP_BAIXA", "ALTA",
                       LT(val, LIMIT_TEMP_MIN(config) - EXTREME_DEVIATION_C))
         ELSE IF GT(val, LIMIT_TEMP_MAX(config, t))
         THEN Problema("TEMP_ALTA", "ALTA",
                       GT(val, LIMIT_TEMP_MAX(config, t) + EXTREME_DEVIATION_C))
         ELSE SemProblema
    ELSE IF ctrl.is_defrosting THEN ProblemaEmDegelo(val, t, config)
    ELSE ProblemaForaDegelo(st, val, t, config)

\* lines 1015-1136: the thermal problem, found on a ready window only
ProblemaTermico(st, ctrl, val, t, config) ==
    IF ~st.ready THEN SemProblema
    ELSE IF ctrl.is_defrosting THEN ProblemaEmDegelo(val, t, config)
    ELSE ProblemaForaDegelo(st, val, t, config)

\* lines 1138-1145: humidity is looked at when there is no thermal problem
ProblemaFinal(termico, leitura, config) ==
    IF termico.msg # "NENHUM" THEN termico
    ELSE [ termico EXCEPT !.msg = ProblemaUmidade(leitura, config) ]

\* the watchlist entry outlives a reading in range
Normalizou_Mantem(wl, sensorMac) == wl
\* lines 1148-1152: the sensor is back in range
Normalizou(wl, sensorMac) == MapDelete(wl, sensorMac)

\* the time of the last alert is forgotten
lastSent_Zero(ctrl) == 0
\* ctrl.last_alert_sent_ts || 0
lastSent(ctrl) == OrElse(ctrl.last_alert_sent_ts, 0)

\* the alert object built at lines 1184-1202 (sensor_nome, previsao and
\* stats_ia, which repeat the configuration and the analyzer result, left out)
Alerta(sensorMac, prioridade, msg, t, leitura, config, ctrl, st) ==
    [ sensor_mac |-> sensorMac, prioridade |-> prioridade, mensagens |-> msg,
      timestamp_iso |-> t, temp_atual |-> leitura.temp,
      limites |-> [ max |-> LIMIT_TEMP_MAX(config, t), min |-> LIMIT_TEMP_MIN(config) ],
      status_operacional |-> IF ctrl.is_defrosting THEN "EM_DEGELO" ELSE "NORMAL",
      ready |-> st.ready ]

\* What one call of verificarSensor returns and leaves behind.  alerta is
\* << >> for null and << a >> for an alert; problema is mensagemProblema
\* ("NENHUM" for null, "MANUTENCAO" for the early return of line 641).
Resultado(alerta, ac, wl, sh, door, problema) ==
    [ alerta |-> alerta, alertControl |-> ac, alertWatchlist |-> wl,
      sensorHistory |-> sh, dbDoorBuffer |-> door, problema |-> problema ]

\* lines 1173-1223: promotion, cooldown and emission, entry being the
\* sensor's watchlist entry, old enough
Disparo(sensorMac, leitura, t, config, st, sh, et, p, ac, wl, prioridade) ==
    IF t - lastSent(et.ctrl) > cooldownEnvio(prioridade)
    THEN Resultado(
             << Alerta(sensorMac, prioridade, p.msg, t, leitura, config, et.ctrl, st) >>,
             MapSet(alertControl, sensorMac, [ et.ctrl EXCEPT !.last_alert_sent_ts = t ]),
             wl, sh, et.door, p.msg)
    ELSE Resultado(<< >>, ac, wl, sh, et.door, p.msg)

\* lines 1147-1175: watchlist and soak time; ac and wl are alertControl and
\* the watchlist as the thermal analysis left them, p the problem found
Gestao(sensorMac, leitura, t, config, st, sh, et, p, ac, wl) ==
    IF p.msg = "NENHUM"
    THEN Resultado(<< >>, ac, Normalizou(wl, sensorMac), sh, et.door, "NENHUM")
    ELSE IF sensorMac \notin DOMAIN wl
    THEN Resultado(<< >>, ac,
                   MapSet(wl, sensorMac, [ first_seen |-> t, msg |-> p.msg ]),
                   sh, et.door, p.msg)
    ELSE IF t - wl[sensorMac].first_seen < soakNecessario(p.prioridade)
    THEN Resultado(<< >>, ac, wl, sh, et.door, p.msg)
    ELSE Disparo(sensorMac, leitura, t, config, st, sh, et, p, ac, wl,
                 IF /\ t - wl[sensorMac].first_seen > CALL_PERSISTENCE_MS
                    /\ p.desvioExtremo
                 THEN "CRITICA" ELSE p.prioridade)

\* lines 1011-1145, et being what the defrost and door detection left
Alertar(sensorMac, leitura, t, config, st, sh, et) ==
    Gestao(sensorMac, leitura, t, config, st, sh, et,
           ProblemaFinal(ProblemaTermico(st, et.ctrl, Val(leitura), t, config),
                         leitura, config),
           IF st.ready THEN MapSet(alertControl, sensorMac, et.ctrl) ELSE alertControl,
           \* line 1034: a suppressed reading drops the watchlist entry
           IF /\ st.ready /\ et.ctrl.is_defrosting
              /\ ~ExtremoEmDegelo(Val(leitura), t, config)
           THEN MapDelete(alertWatchlist, sensorMac) ELSE alertWatchlist)

\* lines 644-1224, the sensor not being in maintenance
VerificarAtivo(sensorMac, leitura, gatewayMac, t, config, st) ==
    Alertar(sensorMac, leitura, t, config, st, HistoricoApos(sensorMac, t),
            EstadoTermico(sensorMac, leitura, gatewayMac, t, config, st,
                          IF sensorMac \in DOMAIN alertControl
                          THEN alertControl[sensorMac] ELSE CtrlDefault))

\* t is the value Date.now() returns during the call, ia what the regressions
\* give on the window
verificarSensor(sensorMac, leitura, gatewayMac, t, ia) ==
    IF configCache[sensorMac].em_manutencao
    THEN Resultado(<< >>, MapDelete(alertControl, sensorMac),
                   MapDelete(alertWatchlist, sensorMac), sensorHistory,
                   dbDoorBuffer, "MANUTENCAO")
    ELSE VerificarAtivo(sensorMac, leitura, gatewayMac, t, configCache[sensorMac],
                        analisarTendencia(sensorMac, t,
                                          isUltra(configCache[sensorMac]), ia))

(***************************************************************************)
(* Bounds of the exploration                                               *)
(***************************************************************************)
\* the clock at start-up: a Tuesday, 12:00 in America/Sao_Paulo
T0 == 486000000
\* readings are explored until T0 + MaxTime
MaxTime == 1890000
\* a silence longer than the 24 h after which the GC evicts a sensor
LongGap == 90000000
\* what a reading of the monitored sensor may carry: << temp, humidity >>
\* (tenths of a degree, percent)
Leituras == { << 0 - 60, 50 >>, << 0 - 60, 90 >>, << 0, 50 >>, << 210, 50 >>,
              << 0 - 160, 50 >> }
\* the sensor's reporting: every Rapido during the first Rajada, then every
\* Lento
Rapido == 10000
Rajada == 90000
Lento == 300000
\* the sensor_configs table changes at most MaxTrocas times
MaxTrocas == 2
\* the history window is explored in steps of Rapido / 2 during the first
\* RajadaHist, across one gap of about the window's span, and until
\* T0 + MaxTimeHist
RajadaHist == 130000
MaxTimeHist == 1360000
\* the flush timer is explored until T0 + MaxTimeFila, with at most MaxVoos
\* calls awaited and MaxFila records of a table not yet stored
MaxTimeFila == 110000
MaxVoos == 2
\* signals the process receives at most
MaxSinais == 2
MaxFila == 2
\* what the reading at clock t carries while the flush timer is explored:
\* the temperature changes with every reading, so that each one is logged
LeiturasFila(t) ==
    { << IF ((t - T0) \div Rapido) % 2 = 0 THEN 0 - 60 ELSE 0 - 50, 50 >> }
\* dropped entries are explored until T0 + MaxTimeIgnorados
MaxTimeIgnorados == 990000
\* the door detection is explored until T0 + MaxTimePortas
MaxTimePortas == 990000
\* what a reading carries while the door detection is explored
LeiturasPortas == { << 0 - 60, 50 >>, << 0, 50 >> }

(***************************************************************************)
(* 9. The MQTT message handler (index.js 1389-1528), one sensor entry of   *)
(*    one gateway item per message                                         *)
(***************************************************************************)
\* lastReadings.get(mac) || { ts: 0, db_temp: -999, db_hum: -999, db_ts: 0 }
LastDefault == [ ts |-> 0, db_temp |-> 0 - 9990, db_hum |-> 0 - 999, db_ts |-> 0 ]

\* secondary sensors are processed like monitored ones
Ignorado_SemSecundarios(mac) ==
    \/ mac \in HARDCODED_BLOCKLIST
    \/ mac \notin DOMAIN configCache
\* the sensor entry is dropped before any processing (lines 1431-1453)
Ignorado(mac) ==
    \/ mac \in HARDCODED_BLOCKLIST
    \/ mac \in secondarySensorsBlocklist
    \/ mac \notin DOMAIN configCache

\* diffTemp >= DB_MIN_VAR_TEMP || diffHum >= DB_MIN_VAR_HUM || timeSinceLastDB > DB_HEARTBEAT_MS
SalvaTelemetria(sensor, last, t) ==
    \/ Abs(sensor.temp - last.db_temp) >= DB_MIN_VAR_TEMP
    \/ Abs(OrElse(sensor.humidity, 0) - last.db_hum) >= DB_MIN_VAR_HUM
    \/ t - last.db_ts > DB_HEARTBEAT_MS

TelemetryRecord(gmac, mac, sensor, t) ==
    [ gw |-> gmac, mac |-> mac, ts |-> t, temp |-> sensor.temp,
      hum |-> sensor.humidity, batt |-> calcularBateria(sensor.vbatt),
      rssi |-> sensor.rssi ]


(***************************************************************************)
(* Observer.  obs.alerta is the alert the last step emitted (<< >> when it *)
(* emitted none), obs.anterior the last alert emitted before that step,    *)
(* obs.apagado whether that sensor's alert-control record was deleted      *)
(* (maintenance, GC) since obs.anterior, obs.limpo whether a processed     *)
(* reading found no problem since the sensor's watchlist entry was made,   *)
(* obs.trocas how often the sensor_configs table has changed, obs.ouvido   *)
(* when an item of each gateway was last handed to the handler, and        *)
(* obs.sistema, for each gateway that was the subject of a SISTEMA alert,  *)
(* the time of the last one (ts), of the one before it (antes) and the     *)
(* time the gateway had last been heard from when it was made (ouvido).    *)
(* obs.falhou tells whether the last step was a configuration refresh that *)
(* failed, and obs.fim how long the defrost had run that the last step     *)
(* ended (0 when it ended none).  Of the inserts the program awaits        *)
(* (emVoo, processo.insert), obs.gravados holds the sensor and time of     *)
(* every telemetry record the store has accepted, and obs.repetidos those  *)
(* of the records it has accepted more than once.                          *)
(***************************************************************************)
ObsInit ==
    [ alerta |-> << >>, anterior |-> << >>, apagado |-> FALSE, limpo |-> FALSE,
      trocas |-> 0, ouvido |-> EmptyMap, sistema |-> EmptyMap, falhou |-> FALSE,
      fim |-> 0, gravados |-> {}, repetidos |-> {} ]

\* the observer once a further step begins
ObsAvanca ==
    IF Len(obs.alerta) > 0
    THEN [ obs EXCEPT !.alerta = << >>, !.apagado = FALSE, !.falhou = FALSE,
                      !.fim = 0,
                      !.anterior = << [ sensor_mac |-> obs.alerta[1].sensor_mac,
                                        timestamp_iso |-> obs.alerta[1].timestamp_iso,
                                        prioridade |-> obs.alerta[1].prioridade ] >> ]
    ELSE [ obs EXCEPT !.falhou = FALSE, !.fim = 0 ]

\* the sensor and time of the telemetry records of batch
Chaves(batch) == { << batch[i].mac, batch[i].ts >> : i \in DOMAIN batch }

\* the observer o once the store accepted the insert of the telemetry batch
ObsGrava(o, batch) ==
    [ o EXCEPT
        !.gravados = @ \cup Chaves(batch),
        !.repetidos =
            @ \cup ( o.gravados \cap Chaves(batch) )
              \cup { k \in Chaves(batch) :
                        \E i, j \in DOMAIN batch :
                            /\ i # j
                            /\ << batch[i].mac, batch[i].ts >> = k
                            /\ << batch[j].mac, batch[j].ts >> = k } ]

\* the observer o once an item of gateway gatewayMac arrived at time t
ObsOuvido(o, gatewayMac, t) ==
    [ o EXCEPT !.ouvido = MapSet(@, gatewayMac, t) ]

\* the observer after verificarSensor returned r for sensor mac at time t
ObsLeitura(mac, t, r) ==
    LET o == ObsAvanca
        wl == r.alertWatchlist
    IN  [ o EXCEPT
            !.alerta = r.alerta,
            !.apagado = @ \/ ( /\ mac \in DOMAIN alertControl
                               /\ mac \notin DOMAIN r.alertControl ),
            !.fim = IF /\ mac \in DOMAIN alertControl
                       /\ alertControl[mac].is_defrosting
                       /\ mac \in DOMAIN r.alertControl
                       /\ ~r.alertControl[mac].is_defrosting
                    THEN t - alertControl[mac].defrost_start_ts ELSE 0,
            !.limpo = IF mac \notin DOMAIN wl THEN FALSE
                      ELSE IF r.problema \in { "NENHUM", "MANUTENCAO" } THEN TRUE
                      ELSE IF wl[mac].first_seen = t THEN FALSE
                      ELSE @ ]

\* lines 1455-1507: what the handler does with the result r of verificarSensor
Processa(gmac, mac, sensor, t, last, r) ==
    /\ alertControl' = r.alertControl
    /\ alertWatchlist' = r.alertWatchlist
    /\ sensorHistory' = r.sensorHistory
    /\ dbDoorBuffer' = r.dbDoorBuffer
    /\ n8nAlertBuffer' = n8nAlertBuffer \o r.alerta
    /\ IF sensor.temp # Undefined /\ SalvaTelemetria(sensor, last, t)
       THEN /\ dbTelemetryBuffer' =
                   Append(dbTelemetryBuffer, TelemetryRecord(gmac, mac, sensor, t))
            /\ lastReadings' =
                   MapSet(lastReadings, mac,
                          [ ts |-> t, db_temp |-> sensor.temp,
                            db_hum |-> sensor.humidity, db_ts |-> t ])
       ELSE /\ dbTelemetryBuffer' = dbTelemetryBuffer
            /\ lastReadings' = MapSet(lastReadings, mac, [ last EXCEPT !.ts = t ])
    /\ obs' = ObsOuvido(ObsLeitura(mac, t, r), formatarMac(gmac), t)

\* lines 1428-1509: one sensor entry of an item of gateway gatewayMac
Sensor(gmac, gatewayMac, mac, sensor, t, ia) ==
    IF Ignorado(mac)
    THEN /\ obs' = ObsOuvido(ObsAvanca, gatewayMac, t)
         /\ UNCHANGED << lastReadings, alertControl, sensorHistory, alertWatchlist,
                         dbTelemetryBuffer, dbDoorBuffer, n8nAlertBuffer >>
    ELSE Processa(gmac, mac, sensor, t,
                  IF mac \in DOMAIN lastReadings THEN lastReadings[mac] ELSE LastDefault,
                  verificarSensor(mac, sensor, gatewayMac, t, ia))

\* lines 1410-1427: one item {gmac, obj: [sensor]} of a message
Item(gmac, gatewayMac, sensor, t, ia) ==
    IF gatewayMac \in HARDCODED_BLOCKLIST
    THEN /\ obs' = ObsOuvido(ObsAvanca, gatewayMac, t)
         /\ UNCHANGED << lastReadings, alertControl, sensorHistory, alertWatchlist,
                         gatewayHeartbeats, dbTelemetryBuffer, dbDoorBuffer,
                         n8nAlertBuffer >>
    ELSE /\ gatewayHeartbeats' =
                MapSet(gatewayHeartbeats, gatewayMac, [ last_seen |-> t ])
         /\ Sensor(gmac, gatewayMac, formatarMac(sensor.dmac), sensor, t, ia)

\* A message of one item delivered d ms after the previous step; ia is what
\* the regressions give on the sensor's window.
Mensagem(d, gmac, sensor, ia) ==
    /\ now' = now + d
    /\ UNCHANGED << configCache, secondarySensorsBlocklist, doorLogs, emVoo, processo,
                    servico, chamada >>
    /\ Item(gmac, formatarMac(gmac), sensor, now + d, ia)

(***************************************************************************)
(* 4. Monitoring API (index.js 135-212)                                    *)
(***************************************************************************)
\* GET /health answered d ms after the previous step: the handler only
\* reads the state, except that it calls analisarTendencia for every
\* configured sensor whose window has more than MIN_DATA_POINTS samples
Health(d) ==
    /\ now' = now + d
    /\ sensorHistory' =
           [ m \in DOMAIN sensorHistory |->
               IF m \in DOMAIN configCache /\ Len(sensorHistory[m]) > MIN_DATA_POINTS
               THEN NovaJanela(m, now + d) ELSE sensorHistory[m] ]
    /\ obs' = ObsAvanca
    /\ UNCHANGED << lastReadings, alertControl, alertWatchlist, gatewayHeartbeats,
                    configCache, secondarySensorsBlocklist, dbTelemetryBuffer,
                    dbDoorBuffer, n8nAlertBuffer, doorLogs, emVoo, processo,
                    servico, chamada >>

(***************************************************************************)
(* 5. Cache and sync (index.js 224-368)                                    *)
(***************************************************************************)
\* atualizarCacheSensores when the query returns the rows `configs'
NovoCache(configs) ==
    [ m \in { formatarMac(c.mac) : c \in configs } |->
        CHOOSE c \in configs : formatarMac(c.mac) = m ]
NovaBlocklist(configs) ==
    { formatarMac(c.sensor_porta_vinculado) :
        c \in { x \in configs : Len(x.sensor_porta_vinculado) > 5 } }

\* a failed refresh leaves the cache and the blocklist empty
AtualizarCacheSensores_Limpa(resp) ==
    /\ IF resp = << >>
       THEN /\ configCache' = EmptyMap
            /\ secondarySensorsBlocklist' = {}
       ELSE /\ configCache' = NovoCache(resp[1])
            /\ secondarySensorsBlocklist' = NovaBlocklist(resp[1])
    /\ obs' = [ ObsAvanca EXCEPT
                  !.trocas = IF resp = << >> \/ NovoCache(resp[1]) = configCache
                             THEN @ ELSE @ + 1,
                  !.falhou = resp = << >> ]
    /\ UNCHANGED << now, lastReadings, alertControl, sensorHistory, alertWatchlist,
                    gatewayHeartbeats, dbTelemetryBuffer, dbDoorBuffer,
                    n8nAlertBuffer, doorLogs, emVoo, processo,
                    servico, chamada >>
\* the timer of line 377, the start-up and every bus connect; resp is the
\* store's answer: a table, or << >> when the query fails (the store returns
\* an error, which line 231 throws, or the awaited call is rejected): the
\* catch block logs, and the two new collections, built aside, are dropped
AtualizarCacheSensores(resp) ==
    /\ IF resp = << >>
       THEN UNCHANGED << configCache, secondarySensorsBlocklist >>
       ELSE /\ configCache' = NovoCache(resp[1])
            /\ secondarySensorsBlocklist' = NovaBlocklist(resp[1])
    /\ obs' = [ ObsAvanca EXCEPT
                  !.trocas = IF resp = << >> \/ NovoCache(resp[1]) = configCache
                             THEN @ ELSE @ + 1,
                  !.falhou = resp = << >> ]
    /\ UNCHANGED << now, lastReadings, alertControl, sensorHistory, alertWatchlist,
                    gatewayHeartbeats, dbTelemetryBuffer, dbDoorBuffer,
                    n8nAlertBuffer, doorLogs, emVoo, processo,
                    servico, chamada >>

\* the query of carregarUltimoEstadoPortas: door_logs of the last 24 h
\* (moment().subtract(24, 'hours')), latest row per sensor
UltimoEstadoPorSensor ==
    [ m \in { x \in DOMAIN doorLogs : doorLogs[x].timestamp_read >= now - 86400000 }
        |-> doorLogs[m] ]

\* alertControl once the loaded states are applied (lines 333-353)
PortasCarregadas(estados) ==
    LET macs == { m \in DOMAIN estados : m \in DOMAIN configCache }
    IN  [ m \in (DOMAIN alertControl) \cup macs |->
            IF m \in macs
            THEN [ (IF m \in DOMAIN alertControl THEN alertControl[m] ELSE CtrlDefault)
                     EXCEPT !.last_virtual_state = estados[m].is_open ]
            ELSE alertControl[m] ]

\* carregarUltimoEstadoPortas, at start-up and on every bus connect (the
\* answer of the store is applied in the step that asks for it)
carregarUltimoEstadoPortas ==
    /\ alertControl' = PortasCarregadas(UltimoEstadoPorSensor)
    /\ obs' = ObsAvanca
    /\ UNCHANGED << now, lastReadings, sensorHistory, alertWatchlist,
                    gatewayHeartbeats, configCache, secondarySensorsBlocklist,
                    dbTelemetryBuffer, dbDoorBuffer, n8nAlertBuffer, doorLogs, emVoo,
                    processo,
                    servico, chamada >>

\* a row {gw, ts} of telemetry_logs
Log(gw, ts) == [ gw |-> gw, ts |-> ts ]

RECURSIVE GatewaysSincronizados(_, _)
\* the heartbeat map after data.forEach (lines 276-282): a gateway that has
\* no heartbeat gets the time of the first row that names it
GatewaysSincronizados(hb, data) ==
    IF data = << >> THEN hb
    ELSE LET gwMac == formatarMac(data[1].gw)
         IN  GatewaysSincronizados(
                 IF gwMac # << >> /\ gwMac \notin DOMAIN hb
                 THEN MapSet(hb, gwMac, [ last_seen |-> data[1].ts, source |-> "DB" ])
                 ELSE hb,
                 Tail(data))

\* sincronizarGatewaysConhecidos, at start-up, on every bus connect and every
\* 30 min; resp is the store's answer: << >> for an error, or << data >>,
\* the rows of the last 24 h, latest first
sincronizarGatewaysConhecidos(resp) ==
    /\ gatewayHeartbeats' =
           IF resp = << >> THEN gatewayHeartbeats
           ELSE GatewaysSincronizados(gatewayHeartbeats, resp[1])
    /\ obs' = ObsAvanca
    /\ UNCHANGED << now, lastReadings, alertControl, sensorHistory, alertWatchlist,
                    configCache, secondarySensorsBlocklist, dbTelemetryBuffer,
                    dbDoorBuffer, n8nAlertBuffer, doorLogs, emVoo, processo,
                    servico, chamada >>

(***************************************************************************)
(* 8. Background tasks (index.js 1230-1357)                                *)
(***************************************************************************)
RECURSIVE InserirPortas(_, _)
\* door_logs after a batch is inserted: per sensor, the row the reload's
\* ORDER BY timestamp_read DESC would return first
InserirPortas(logs, batch) ==
    IF batch = << >> THEN logs
    ELSE LET b == batch[1]
             novo == IF /\ b.sensor_mac \in DOMAIN logs
                        /\ logs[b.sensor_mac].timestamp_read > b.timestamp_read
                     THEN logs
                     ELSE MapSet(logs, b.sensor_mac,
                                 [ is_open |-> b.is_open,
                                   timestamp_read |-> b.timestamp_read ])
         IN  InserirPortas(novo, Tail(batch))

\* a call of a sink the timers await: the rows or alerts sent, and the answer
\* ("pendente" until the store or the webhook answers)
Voo(sink, batch) == [ sink |-> sink, batch |-> batch, resposta |-> "pendente" ]
\* the process: estado is "ativo" until a signal arrives, "encerrando" while
\* shutdown() awaits its insert (the call held in insert), "terminado" after
\* process.exit
Processo(estado, insert) == [ estado |-> estado, insert |-> insert ]
\* emVoo without its i-th call
SemVoo(i) == SubSeq(emVoo, 1, i - 1) \o SubSeq(emVoo, i + 1, Len(emVoo))

\* the failed batch is dropped
Recoloca_Descarta(batch, fila) == fila
\* fila.unshift(...batch) (lines 1250, 1268, 1316)
Recoloca(batch, fila) == batch \o fila

\* lines 1252-1270: the door half of a flush tick, voos being the calls
\* awaited once the telemetry half is over
FlushPortas(voos) ==
    IF dbDoorBuffer # << >>
    THEN /\ dbDoorBuffer' = << >>
         /\ emVoo' = Append(voos, Voo("door_logs", dbDoorBuffer))
    ELSE /\ dbDoorBuffer' = dbDoorBuffer
         /\ emVoo' = voos

\* a tick of the 10-s flush timer, up to its first await (lines 1230-1235,
\* or 1252-1256 when there is no telemetry to insert)
FlushTick ==
    /\ dbTelemetryBuffer # << >> \/ dbDoorBuffer # << >>
    /\ IF dbTelemetryBuffer # << >>
       THEN /\ dbTelemetryBuffer' = << >>
            /\ emVoo' = Append(emVoo, Voo("telemetry_logs", dbTelemetryBuffer))
            /\ dbDoorBuffer' = dbDoorBuffer
       ELSE /\ dbTelemetryBuffer' = dbTelemetryBuffer
            /\ FlushPortas(emVoo)
    /\ obs' = ObsAvanca
    /\ UNCHANGED << now, lastReadings, alertControl, sensorHistory, alertWatchlist,
                    gatewayHeartbeats, configCache, secondarySensorsBlocklist,
                    n8nAlertBuffer, doorLogs, processo,
                    servico, chamada >>

\* the store or the webhook answers the i-th awaited call: the rows are
\* inserted, or the call fails (an error, an exception, a non-2xx status)
Responde(i, resposta) ==
    /\ emVoo[i].resposta = "pendente"
    /\ emVoo' = [ emVoo EXCEPT ![i].resposta = resposta ]
    /\ doorLogs' = IF emVoo[i].sink = "door_logs" /\ resposta = "ok"
                   THEN InserirPortas(doorLogs, emVoo[i].batch) ELSE doorLogs
    /\ obs' = IF emVoo[i].sink = "telemetry_logs" /\ resposta = "ok"
              THEN ObsGrava(ObsAvanca, emVoo[i].batch) ELSE ObsAvanca
    /\ UNCHANGED << now, lastReadings, alertControl, sensorHistory, alertWatchlist,
                    gatewayHeartbeats, configCache, secondarySensorsBlocklist,
                    dbTelemetryBuffer, dbDoorBuffer, n8nAlertBuffer, processo,
                    servico, chamada >>

\* the flush tick resumes after the answer to its i-th awaited insert
\* (lines 1236-1251 and then the door half, or lines 1257-1270)
FlushContinua(i) ==
    /\ emVoo[i].resposta # "pendente"
    /\ \/ /\ emVoo[i].sink = "telemetry_logs"
          /\ dbTelemetryBuffer' =
                 IF emVoo[i].resposta = "erro"
                 THEN Recoloca(emVoo[i].batch, dbTelemetryBuffer)
                 ELSE dbTelemetryBuffer
          /\ FlushPortas(SemVoo(i))
       \/ /\ emVoo[i].sink = "door_logs"
          /\ dbDoorBuffer' =
                 IF emVoo[i].resposta = "erro"
                 THEN Recoloca(emVoo[i].batch, dbDoorBuffer)
                 ELSE dbDoorBuffer
          /\ emVoo' = SemVoo(i)
          /\ dbTelemetryBuffer' = dbTelemetryBuffer
    /\ obs' = ObsAvanca
    /\ UNCHANGED << now, lastReadings, alertControl, sensorHistory, alertWatchlist,
                    gatewayHeartbeats, configCache, secondarySensorsBlocklist,
                    n8nAlertBuffer, doorLogs, processo,
                    servico, chamada >>

\* a tick of the 5-min webhook timer, up to its await (lines 1273-1287)
WebhookTick ==
    /\ n8nAlertBuffer # << >>
    /\ n8nAlertBuffer' = << >>
    /\ emVoo' = Append(emVoo, Voo("webhook", n8nAlertBuffer))
    /\ obs' = ObsAvanca
    /\ UNCHANGED << now, lastReadings, alertControl, sensorHistory, alertWatchlist,
                    gatewayHeartbeats, configCache, secondarySensorsBlocklist,
                    dbTelemetryBuffer, dbDoorBuffer, doorLogs, processo,
                    servico, chamada >>

\* the webhook tick resumes after the answer to its POST (lines 1288-1317)
WebhookContinua(i) ==
    /\ emVoo[i].sink = "webhook"
    /\ emVoo[i].resposta # "pendente"
    /\ n8nAlertBuffer' =
           IF emVoo[i].resposta = "erro"
           THEN Recoloca(emVoo[i].batch, n8nAlertBuffer)
           ELSE n8nAlertBuffer
    /\ emVoo' = SemVoo(i)
    /\ obs' = ObsAvanca
    /\ UNCHANGED << now, lastReadings, alertControl, sensorHistory, alertWatchlist,
                    gatewayHeartbeats, configCache, secondarySensorsBlocklist,
                    dbTelemetryBuffer, dbDoorBuffer, doorLogs, processo,
                    servico, chamada >>

\* shutdown (lines 1530-1535), on SIGTERM or SIGINT, up to its await, or to
\* process.exit when there is no telemetry to insert; both signals stay
\* bound to it (lines 1536-1537), so it runs again on a further signal
shutdown ==
    /\ processo.estado # "terminado"
    /\ Len(processo.insert) < MaxSinais
    /\ processo' = IF dbTelemetryBuffer # << >>
                   THEN Processo("encerrando",
                                 Append(processo.insert,
                                        Voo("telemetry_logs", dbTelemetryBuffer)))
                   ELSE Processo("terminado", processo.insert)
    /\ obs' = ObsAvanca
    /\ UNCHANGED << now, lastReadings, alertControl, sensorHistory, alertWatchlist,
                    gatewayHeartbeats, configCache, secondarySensorsBlocklist,
                    dbTelemetryBuffer, dbDoorBuffer, n8nAlertBuffer, doorLogs, emVoo,
                    servico, chamada >>

\* the store answers an insert a shutdown() awaits: the rows are inserted
RespondeShutdown ==
    /\ processo.estado = "encerrando"
    /\ \E k \in DOMAIN processo.insert :
           /\ processo.insert[k].resposta = "pendente"
           /\ processo' = [ processo EXCEPT !.insert[k].resposta = "ok" ]
           /\ obs' = ObsGrava(ObsAvanca, processo.insert[k].batch)
    /\ UNCHANGED << now, lastReadings, alertControl, sensorHistory, alertWatchlist,
                    gatewayHeartbeats, configCache, secondarySensorsBlocklist,
                    dbTelemetryBuffer, dbDoorBuffer, n8nAlertBuffer, doorLogs, emVoo,
                    servico, chamada >>

\* a shutdown() resumes after its insert: process.exit(0) (line 1534)
Sair ==
    /\ processo.estado = "encerrando"
    /\ \E k \in DOMAIN processo.insert : processo.insert[k].resposta # "pendente"
    /\ processo' = [ processo EXCEPT !.estado = "terminado" ]
    /\ obs' = ObsAvanca
    /\ UNCHANGED << now, lastReadings, alertControl, sensorHistory, alertWatchlist,
                    gatewayHeartbeats, configCache, secondarySensorsBlocklist,
                    dbTelemetryBuffer, dbDoorBuffer, n8nAlertBuffer, doorLogs, emVoo,
                    servico, chamada >>

\* one tick of the 10-s flush timer whose inserts succeed at once
FlushDB ==
    /\ dbTelemetryBuffer # << >> \/ dbDoorBuffer # << >>
    /\ dbTelemetryBuffer' = << >>
    /\ dbDoorBuffer' = << >>
    /\ doorLogs' = InserirPortas(doorLogs, dbDoorBuffer)
    /\ obs' = ObsAvanca
    /\ UNCHANGED << now, lastReadings, alertControl, sensorHistory, alertWatchlist,
                    gatewayHeartbeats, configCache, secondarySensorsBlocklist,
                    n8nAlertBuffer, emVoo, processo,
                    servico, chamada >>

\* one tick of the 5-min webhook timer whose POST returns 2xx at once
EnviarAlertas ==
    /\ n8nAlertBuffer # << >>
    /\ n8nAlertBuffer' = << >>
    /\ obs' = ObsAvanca
    /\ UNCHANGED << now, lastReadings, alertControl, sensorHistory, alertWatchlist,
                    gatewayHeartbeats, configCache, secondarySensorsBlocklist,
                    dbTelemetryBuffer, dbDoorBuffer, doorLogs, emVoo, processo,
                    servico, chamada >>

\* the time of the gateway's last alert is forgotten
lastAlert_Zero(gmac) == 0
\* alertControl.get(gmac)?.last_alert_ts || 0
lastAlert(gmac) ==
    IF gmac \in DOMAIN alertControl /\ "last_alert_ts" \in DOMAIN alertControl[gmac]
    THEN OrElse(alertControl[gmac].last_alert_ts, 0)
    ELSE 0

\* a gateway counts as silent after twice the timeout
Silencioso_Dobro(gmac, t) ==
    t - gatewayHeartbeats[gmac].last_seen > 2 * GATEWAY_TIMEOUT_MS
\* now - data.last_seen > GATEWAY_TIMEOUT_MS
Silencioso(gmac, t) == t - gatewayHeartbeats[gmac].last_seen > GATEWAY_TIMEOUT_MS

\* the gateways the check at time t alerts (lines 1322-1326)
GatewaysOffline(t) ==
    { gmac \in DOMAIN gatewayHeartbeats :
        /\ ~(t - lastAlert(gmac) < 60 * 60 * 1000)
        /\ Silencioso(gmac, t)
        /\ gmac \notin HARDCODED_BLOCKLIST }

\* the alert pushed at lines 1328-1335 (sensor_nome and dados_contexto, a
\* label and a constant, left out)
AlertaGateway(gmac, t) ==
    [ sensor_mac |-> gmac, prioridade |-> "SISTEMA", mensagens |-> "GATEWAY_OFFLINE",
      minOffline |-> (t - gatewayHeartbeats[gmac].last_seen) \div 60000,
      timestamp_iso |-> t ]

\* the orders in which forEach may visit the gateways of S
Ordens(S) ==
    { o \in [ 1 .. Cardinality(S) -> S ] : { o[i] : i \in DOMAIN o } = S }

\* a tick of the one-minute gateway check (lines 1320-1342)
VerificarGateways ==
    \E ordem \in Ordens(GatewaysOffline(now)) :
        /\ n8nAlertBuffer' =
               n8nAlertBuffer \o [ i \in DOMAIN ordem |-> AlertaGateway(ordem[i], now) ]
        /\ alertControl' =
               [ m \in (DOMAIN alertControl) \cup GatewaysOffline(now) |->
                   IF m \in GatewaysOffline(now)
                   THEN MapSet(IF m \in DOMAIN alertControl
                               THEN alertControl[m] ELSE EmptyMap,
                               "last_alert_ts", now)
                   ELSE alertControl[m] ]
        /\ obs' = [ ObsAvanca EXCEPT
                      !.sistema =
                          [ g \in (DOMAIN @) \cup GatewaysOffline(now) |->
                              IF g \in GatewaysOffline(now)
                              THEN [ ts |-> now,
                                     antes |-> IF g \in DOMAIN @
                                               THEN @[g].ts ELSE Undefined,
                                     ouvido |-> IF g \in DOMAIN obs.ouvido
                                                THEN obs.ouvido[g] ELSE Undefined ]
                              ELSE @[g] ] ]
        /\ UNCHANGED << now, lastReadings, sensorHistory, alertWatchlist,
                        gatewayHeartbeats, configCache, secondarySensorsBlocklist,
                        dbTelemetryBuffer, dbDoorBuffer, doorLogs, emVoo, processo,
                    servico, chamada >>

\* sensors silent for more than 24 h, gateways for more than 48 h
Expirados == { m \in DOMAIN lastReadings : now - lastReadings[m].ts > 86400000 }
GatewaysExpirados ==
    { g \in DOMAIN gatewayHeartbeats : now - gatewayHeartbeats[g].last_seen > 2 * 86400000 }
Sem(m, ks) == [ x \in (DOMAIN m) \ ks |-> m[x] ]

\* the daily garbage collection (lines 1344-1357)
LimparEstado ==
    /\ lastReadings' = Sem(lastReadings, Expirados)
    /\ sensorHistory' = Sem(sensorHistory, Expirados)
    /\ alertControl' = Sem(alertControl, Expirados)
    /\ gatewayHeartbeats' = Sem(gatewayHeartbeats, GatewaysExpirados)
    /\ obs' = [ ObsAvanca EXCEPT
                  !.apagado = @ \/ (Expirados \cap DOMAIN alertControl # {}) ]
    /\ UNCHANGED << now, alertWatchlist, configCache, secondarySensorsBlocklist,
                    dbTelemetryBuffer, dbDoorBuffer, n8nAlertBuffer, doorLogs, emVoo,
                    processo,
                    servico, chamada >>

\* no message arrives for LongGap, once
Silencio ==
    /\ now < T0 + LongGap
    /\ now' = now + LongGap
    /\ obs' = ObsAvanca
    /\ UNCHANGED << lastReadings, alertControl, sensorHistory, alertWatchlist,
                    gatewayHeartbeats, configCache, secondarySensorsBlocklist,
                    dbTelemetryBuffer, dbDoorBuffer, n8nAlertBuffer, doorLogs, emVoo,
                    processo,
                    servico, chamada >>

(***************************************************************************)
(* SensorService (src/services/SensorService.js), the refactored           *)
(* verificarSensor. index.js does not import it. Here what its two         *)
(* detection strategies detect on a sample is an input of the call, and of *)
(* a sensor state only the alertControl fields the service itself reads    *)
(* and writes are kept; the strategies themselves follow below. A name the *)
(* service imports from constants.js that constants.js does not define is  *)
(* read as undefined.                                                      *)
(***************************************************************************)
\* obj.key
Prop(obj, key) == IF key \in DOMAIN obj THEN obj[key] ELSE Undefined
\* a + b on numbers that may be NaN or undefined
Mais(a, b) == IF a \in { NaN, Undefined } \/ b \in { NaN, Undefined } THEN NaN ELSE a + b
Menos(a, b) == IF a \in { NaN, Undefined } \/ b \in { NaN, Undefined } THEN NaN ELSE a - b

\* constants.js 91-97 (temperatures in tenths of a degree)
DOOR_DETECTION ==
    [ MIN_OPEN_DURATION_MS |-> 30 * 1000, MIN_CLOSE_DURATION_MS |-> 60 * 1000,
      STABILITY_CHECK_POINTS |-> 3, TEMP_RISE_CONFIRMATION |-> 10,
      TEMP_DROP_CONFIRMATION |-> 5 ]
\* imported by SensorService.js line 11; constants.js exports neither
TEMP_MIN_THRESHOLD == Undefined
TEMP_MAX_THRESHOLD == Undefined

\* the alertControl of a sensor state the service has just created
ControleInicial ==
    [ last_virtual_state |-> FALSE, is_defrosting |-> FALSE,
      last_analysis_ts |-> Undefined ]

\* `${state.mac}_${tipoAlerta}`
WatchlistKey(mac, tipo) == << mac, tipo >>

\* _createAlert (lines 336-345)
AlertaServico(mac, tipo, prioridade, t) ==
    [ sensor_mac |-> mac, prioridade |-> prioridade, mensagens |-> tipo,
      timestamp_iso |-> t ]

\* what a step of the service gives: an alert (<< >> for null) and the
\* watchlist
Saida(alert, wl) == [ alert |-> alert, alertWatchlist |-> wl ]

\* the watchlist test both alerts share (lines 229-245 and 295-310): the
\* alert is suppressed within ALERT_SOAK_TIME_MS of the last one of its key
\* (the instance was given a watchlist)
ComDedup(wl, key, t, alert) ==
    IF key \in DOMAIN wl /\ ~Falsy(wl[key]) /\ t - wl[key] < ALERT_SOAK_TIME_MS
    THEN Saida(<< >>, wl)
    ELSE Saida(<< alert >>, MapSet(wl, key, t))

\* tipoAlerta of _processAlerts (lines 175-224)
TipoAlerta(config, val, leitura, t) ==
    IF LT(val, Mais(LIMIT_TEMP_MIN(config), TEMP_MIN_THRESHOLD)) THEN "TEMP_BAIXA"
    ELSE IF GT(val, Menos(LIMIT_TEMP_MAX(config, t), TEMP_MAX_THRESHOLD))
    THEN "TEMP_ALTA"
    ELSE IF leitura.humidity = Undefined THEN ""
    ELSE IF ~Falsy(config.hum_max) /\ GT(leitura.humidity, config.hum_max)
    THEN "UMID_ALTA"
    ELSE IF ~Falsy(config.hum_min) /\ LT(leitura.humidity, config.hum_min)
    THEN "UMID_BAIXA"
    ELSE ""

\* prioridade of _processAlerts (lines 197-211)
PrioridadeServico(config, val, tipo, t) ==
    IF \/ tipo = "TEMP_BAIXA" /\ LT(val, LIMIT_TEMP_MIN(config) - EXTREME_DEVIATION_C)
       \/ tipo = "TEMP_ALTA" /\ GT(val, LIMIT_TEMP_MAX(config, t) + EXTREME_DEVIATION_C)
    THEN "CRITICA" ELSE "ALTA"

\* _processAlerts (lines 169-268)
processAlerts(state, mac, config, val, leitura, t, wl) ==
    IF state.is_defrosting THEN Saida(<< >>, wl)
    ELSE IF TipoAlerta(config, val, leitura, t) = "" THEN Saida(<< >>, wl)
    ELSE ComDedup(wl, WatchlistKey(mac, TipoAlerta(config, val, leitura, t)), t,
                  AlertaServico(mac, TipoAlerta(config, val, leitura, t),
                                PrioridadeServico(config, val,
                                                  TipoAlerta(config, val, leitura, t), t),
                                t))

\* tempoAberta > DOOR_DETECTION.MAX_OPEN_TIME_MS (lines 287-291)
AbertaDemais(state, t) ==
    GT(t - OrElse(state.last_analysis_ts, t), Prop(DOOR_DETECTION, "MAX_OPEN_TIME_MS"))

\* _processDoorOpenAlert (lines 273-331)
processDoorOpenAlert(state, mac, t, wl) ==
    IF ~state.last_virtual_state THEN Saida(<< >>, wl)
    ELSE IF state.is_defrosting THEN Saida(<< >>, wl)
    ELSE IF AbertaDemais(state, t)
    THEN ComDedup(wl, WatchlistKey(mac, "PORTA_ABERTA"), t,
                  AlertaServico(mac, "PORTA_ABERTA", "ALTA", t))
    ELSE Saida(<< >>, wl)

\* _processDefrostDetection (lines 85-122), the strategy giving action
processDefrostDetection(ready, action, state) ==
    IF ~ready THEN state
    ELSE IF action = "START" THEN [ state EXCEPT !.is_defrosting = TRUE ]
    ELSE IF action = "END" THEN [ state EXCEPT !.is_defrosting = FALSE ]
    ELSE state

\* _processDoorDetection (lines 127-160), the strategy giving result
processDoorDetection(ready, result, state, t) ==
    IF ~ready \/ state.is_defrosting THEN state
    ELSE IF result.detected /\ result.newState # state.last_virtual_state
    THEN [ state EXCEPT !.last_virtual_state = result.newState,
                        !.last_analysis_ts = t ]
    ELSE state

\* the sensor state after the two detections of verificarSensor (lines 36-68)
EstadoDetectado(sv, mac, ready, action, newState, t) ==
    processDoorDetection(ready, newState,
        processDefrostDetection(ready, action,
            IF mac \in DOMAIN sv.sensorStates THEN sv.sensorStates[mac]
            ELSE ControleInicial),
        t)

\* alert: alerta || alertaPorta (lines 70-80), on the detected state st
AlertasServico(sv, st, mac, config, leitura, t) ==
    [ temp |-> processAlerts(st, mac, config, leitura.temp, leitura, t,
                             sv.alertWatchlist),
      porta |-> processDoorOpenAlert(st, mac, t,
                    processAlerts(st, mac, config, leitura.temp, leitura, t,
                                  sv.alertWatchlist).alertWatchlist) ]

\* SensorService.verificarSensor (lines 27-80) on the instance sv: the
\* instance afterwards, alert being the alert of the result
ServicoVerificarSensor(sv, mac, leitura, config, t, ready, action, newState) ==
    IF config.em_manutencao THEN [ sv EXCEPT !.alert = << >> ]
    ELSE [ sensorStates |->
               MapSet(sv.sensorStates, mac,
                      EstadoDetectado(sv, mac, ready, action, newState, t)),
           alertWatchlist |->
               AlertasServico(sv, EstadoDetectado(sv, mac, ready, action, newState, t),
                              mac, config, leitura, t).porta.alertWatchlist,
           ts |-> t,
           alert |->
               IF AlertasServico(sv, EstadoDetectado(sv, mac, ready, action, newState, t),
                                 mac, config, leitura, t).temp.alert # << >>
               THEN AlertasServico(sv, EstadoDetectado(sv, mac, ready, action, newState, t),
                                   mac, config, leitura, t).temp.alert
               ELSE AlertasServico(sv, EstadoDetectado(sv, mac, ready, action, newState, t),
                                   mac, config, leitura, t).porta.alert,
           doorStateHistory |-> sv.doorStateHistory ]

\* new SensorService(new Map()): no sensor state, an empty watchlist, a
\* door strategy that has detected nothing
ServicoInicial ==
    [ sensorStates |-> EmptyMap, alertWatchlist |-> EmptyMap, ts |-> 0,
      alert |-> << >>, doorStateHistory |-> EmptyMap ]

(***************************************************************************)
(* The detection strategies (src/strategies) and the sensor state          *)
(* (src/models/SensorState.js) the service calls, and the service on top   *)
(* of them. The strategies are the files at src/unnamed/part_004 and       *)
(* part_006, SensorState is listed in src/README.md (lines 320-393).       *)
(***************************************************************************)
\* constants.js 33-66: the tuning fields index.js does not have
TUNING_NORMAL_PORTA ==
    [ DOOR_JERK_THRESHOLD |-> 500, DOOR_R2_THRESHOLD |-> 600,
      DOOR_CLOSE_SLOPE_THRESHOLD |-> 0 - 100, DOOR_CLOSE_VARIANCE_REDUCTION |-> 700 ]
TUNING_ULTRA_PORTA ==
    [ DOOR_JERK_THRESHOLD |-> 600, DOOR_R2_THRESHOLD |-> 550,
      DOOR_CLOSE_SLOPE_THRESHOLD |-> 0 - 150, DOOR_CLOSE_VARIANCE_REDUCTION |-> 750 ]
\* const TUNING = isUltra ? TUNING_ULTRA : TUNING_NORMAL (SensorService.js 48-49)
TuningDoServico(config) ==
    IF isUltra(config) THEN TUNING_ULTRA @@ TUNING_ULTRA_PORTA
    ELSE TUNING_NORMAL @@ TUNING_NORMAL_PORTA

\* constants.js 79-88 (slopes in thousandths)
DEFROST_DETECTION ==
    [ MIN_RISING_SLOPE |-> 150, MIN_FALLING_SLOPE |-> 0 - 150,
      MIN_DURATION_BEFORE_END_MS |-> 2 * 60 * 1000,
      ULTRA_MIN_RISING_SLOPE |-> 250, ULTRA_MIN_FALLING_SLOPE |-> 0 - 200 ]

\* new SensorState(mac, config) (README.md 321-345): its alertControl and its
\* history, a sequence of sample timestamps. lastReading is the reading of
\* the call, config the configuration of the call; defrost_peak_temp and
\* defrost_end_ts are only logged.
EstadoInicial ==
    [ last_virtual_state |-> FALSE, is_defrosting |-> FALSE,
      last_variance |-> Null, last_analysis_ts |-> Undefined,
      defrost_start_ts |-> Null, defrost_start_temp |-> Null,
      defrost_just_started |-> FALSE, history |-> << >> ]

\* addHistoryPoint(temp, ts): this.history.push({ ts, temp }) (README.md 359-361)
addHistoryPoint(history, ts) == Append(history, ts)
\* cleanHistory(windowStart) (README.md 366-370)
cleanHistory(history, windowStart) == SelectSeq(history, LAMBDA ts : ts > windowStart)

\* ThermalAnalysisService.analisarTendencia (lines 14-56) on state.history,
\* the array it is passed: an accepted sample is pushed onto that array, and
\* the window the regressions run on is a filtered copy of it
AnaliseDoServico(history, t, isU, ia) ==
    LET aceita == AceitaAmostra(history, t)
        janela == IF aceita THEN JanelaDeslizante(Append(history, t), t) ELSE history
    IN  [ history |-> IF aceita THEN Append(history, t) ELSE history,
          stats |-> IF Len(janela) < MIN_DATA_POINTS
                    THEN [ ready |-> FALSE, count |-> Len(janela) ]
                    ELSE [ ready |-> TRUE, slope |-> ia.slope,
                           acceleration |-> ia.acceleration, jerk |-> ia.jerk,
                           variance |-> ia.variance, r2 |-> ia.r2,
                           cicloDegelo |-> analisarCicloDegelo(ia, isU),
                           slopeChange |-> ia.slopeChange, ia |-> ia,
                           history_length |-> Len(janela) ] ]

\* how many of the criteria hold
Atendidos(criteria) == Cardinality({ i \in DOMAIN criteria : criteria[i] })

\* criteria of _detectDoorOpen (part_006 119-131): accel, slope, variance,
\* changePoint, jerk
CriteriosAbertura(st, T) ==
    << st.acceleration > T.DOOR_ACCEL,
       st.slope > T.DOOR_SLOPE,
       st.variance > T.DOOR_VARIANCE_THRESHOLD /\ st.slope > 500
           /\ LT(st.r2, T.DOOR_R2_THRESHOLD),
       st.slopeChange # Undefined /\ Abs(st.slopeChange) > 1000
           /\ st.variance > T.DOOR_VARIANCE_THRESHOLD,
       Abs(st.jerk) > T.DOOR_JERK_THRESHOLD /\ st.slope > 300 >>

\* _detectDoorOpen (part_006 118-156)
detectDoorOpen(st, T) ==
    [ detected |-> Atendidos(CriteriosAbertura(st, T)) > 0,
      criteria |-> CriteriosAbertura(st, T),
      confidence |-> IF Atendidos(CriteriosAbertura(st, T)) >= 3 THEN "HIGH"
                     ELSE IF Atendidos(CriteriosAbertura(st, T)) >= 2 THEN "MEDIUM"
                     ELSE "LOW" ]

\* _checkVarianceReduction (part_006 190-195)
checkVarianceReduction(st, state, T) ==
    LET prevVariance == IF Falsy(state.last_variance) THEN st.variance
                        ELSE state.last_variance
    IN  /\ 1000 * st.variance < prevVariance * T.DOOR_CLOSE_VARIANCE_REDUCTION
        /\ 10 * st.variance < 8 * T.DOOR_VARIANCE_THRESHOLD

\* criteria of _detectDoorClose (part_006 162-166): slope, accel, variance
CriteriosFecho(st, state, T) ==
    << st.slope < T.DOOR_CLOSE_SLOPE_THRESHOLD /\ GT(st.r2, 500),
       st.slope < 100 /\ st.acceleration < 0 - 100,
       checkVarianceReduction(st, state, T) >>

\* _detectDoorClose (part_006 161-185)
detectDoorClose(st, state, T) ==
    [ detected |-> Atendidos(CriteriosFecho(st, state, T)) > 0,
      criteria |-> CriteriosFecho(st, state, T),
      confidence |-> "MEDIUM" ]

\* an entry of doorStateHistory (part_006 209-214); criteria holds which
\* criteria the sample satisfied
Deteccao(newState, t, detection) ==
    [ state |-> newState, timestamp |-> t, confidence |-> detection.confidence,
      criteria |-> detection.criteria ]

\* the detections of newState in history that are recent at time t
Recentes(history, newState, t) ==
    { i \in DOMAIN history :
        /\ history[i].state = newState
        /\ t - history[i].timestamp <
               (IF newState THEN DOOR_DETECTION.MIN_OPEN_DURATION_MS
                ELSE DOOR_DETECTION.MIN_CLOSE_DURATION_MS) }

\* one detection confirms whatever its confidence
confirmStateChange_UmaBasta(history, newState, t, detection) ==
    LET pushed == Append(history, Deteccao(newState, t, detection))
        kept == IF Len(pushed) > 10 THEN Tail(pushed) ELSE pushed
    IN  [ confirmed |-> Cardinality(Recentes(kept, newState, t)) >= 1,
          history |-> kept ]

\* _confirmStateChange (part_006 201-230) on the history of one sensor
confirmStateChange(history, newState, t, detection) ==
    LET pushed == Append(history, Deteccao(newState, t, detection))
        kept == IF Len(pushed) > 10 THEN Tail(pushed) ELSE pushed
        minConfirmations == IF detection.confidence = "HIGH" THEN 1 ELSE 2
    IN  [ confirmed |-> Cardinality(Recentes(kept, newState, t)) >= minConfirmations,
          history |-> kept ]

\* what detect returns, and the history of the sensor afterwards
ResultadoPorta(detected, newState, confidence, history) ==
    [ detected |-> detected, newState |-> newState, confidence |-> confidence,
      history |-> history ]

\* DoorDetectionStrategy.detect (part_006 18-95) on a ready window; state is
\* the sensor state, val its last reading, history the detections of the
\* sensor
detectDoor(st, T, state, val, config, t, history) ==
    LET tempDentroRange ==
            \* _isTempInRange: the fallbacks are -5.0 and -30.0
            /\ GE(val, IF config.temp_min # Null THEN config.temp_min ELSE 0 - 300)
            /\ LE(val, IF config.temp_max # Null THEN config.temp_max ELSE 0 - 50)
        tempEstavel == /\ Abs(st.slope) < 100
                       /\ 2 * st.variance < T.DOOR_VARIANCE_THRESHOLD
                       /\ GT(st.r2, 700)
        currentState == state.last_virtual_state
        openDetection == detectDoorOpen(st, T)
        closeDetection == detectDoorClose(st, state, T)
        open == confirmStateChange(history, TRUE, t, openDetection)
        close == confirmStateChange(history, FALSE, t, closeDetection)
    IN  IF state.is_defrosting THEN ResultadoPorta(FALSE, FALSE, "", history)
        ELSE IF tempDentroRange /\ tempEstavel
        THEN ResultadoPorta(currentState, FALSE, IF currentState THEN "HIGH" ELSE "",
                            history)
        ELSE IF ~currentState /\ openDetection.detected
        THEN ResultadoPorta(open.confirmed, open.confirmed, openDetection.confidence,
                            open.history)
        ELSE IF currentState /\ closeDetection.detected
        THEN ResultadoPorta(close.confirmed, ~close.confirmed,
                            closeDetection.confidence, close.history)
        ELSE ResultadoPorta(FALSE, currentState, "", history)

\* criteria1 || ... || criteria4 of _detectDefrostStart (part_004 40-68)
detectDefrostStart(st, T, config) ==
    LET minSlope == IF isUltra(config) THEN DEFROST_DETECTION.ULTRA_MIN_RISING_SLOPE
                    ELSE DEFROST_DETECTION.MIN_RISING_SLOPE
        criteria1 == /\ st.slope > minSlope
                     /\ StdErrorLT(st.ia, T.DEFROST_VARIANCE_THRESHOLD)
                     /\ GT(st.r2, T.DEFROST_MIN_R2)
                     /\ st.variance < T.DEFROST_VARIANCE_THRESHOLD
        criteria2 == /\ st.cicloDegelo.isDefrostPattern
                     /\ st.cicloDegelo.phase = "RISING"
                     /\ st.cicloDegelo.risingSlope > minSlope
        criteria3 == /\ isUltra(config) /\ st.slope > 300 /\ GT(st.r2, 880)
                     /\ StdErrorLT(st.ia, 600)
        criteria4 == /\ st.slopeChange # Undefined /\ st.slopeChange > 500
                     /\ st.slope > minSlope /\ GT(st.r2, 750)
    IN  criteria1 \/ criteria2 \/ criteria3 \/ criteria4

\* criteria4 of _detectDefrostEnd (part_004 141-149): the temperature is
\* back near the one the defrost started at
TemperaturaRecuperada(st, state, val, config, t) ==
    /\ LE(val, (IF Falsy(state.defrost_start_temp) THEN val
                ELSE state.defrost_start_temp)
                   + (IF isUltra(config) THEN 30 ELSE 20))
    /\ t - (IF Falsy(state.defrost_start_ts) THEN 0 ELSE state.defrost_start_ts)
           > DEFROST_DETECTION.MIN_DURATION_BEFORE_END_MS
    /\ st.slope < 0 - 100
    /\ st.cicloDegelo.phase # "RISING"

\* the other end criteria of _detectDefrostEnd (part_004 125-139, 151-155):
\* criteria1, criteria2, criteria3, criteria5
OutroCriterioDeFim(st, state, config, t) ==
    LET minFallingSlope == IF isUltra(config)
                           THEN DEFROST_DETECTION.ULTRA_MIN_FALLING_SLOPE
                           ELSE DEFROST_DETECTION.MIN_FALLING_SLOPE
    IN  \/ st.slope < 0 - 300 /\ GT(st.r2, 700)
        \/ st.cicloDegelo.phase = "FALLING"
               /\ st.cicloDegelo.fallingSlope < minFallingSlope
        \/ t - (IF Falsy(state.defrost_start_ts) THEN 0 ELSE state.defrost_start_ts)
               > 60 * 60 * 1000
        \/ /\ st.slopeChange # Undefined /\ st.slopeChange < 0 - 300
           /\ st.slope < minFallingSlope /\ GT(st.r2, 600)

\* _detectDefrostEnd (part_004 99-186)
detectDefrostEnd(st, state, val, config, t) ==
    IF state.defrost_just_started THEN FALSE
    ELSE IF t - (IF Falsy(state.defrost_start_ts) THEN 0 ELSE state.defrost_start_ts)
                < DEFROST_DETECTION.MIN_DURATION_BEFORE_END_MS
    THEN FALSE
    ELSE \/ OutroCriterioDeFim(st, state, config, t)
         \/ TemperaturaRecuperada(st, state, val, config, t)

\* result.action of DefrostDetectionStrategy.detect (part_004 18-35) on a
\* ready window, "" when nothing is detected
detectDefrost(st, T, state, val, config, t) ==
    IF ~state.is_defrosting
    THEN IF detectDefrostStart(st, T, config) THEN "START" ELSE ""
    ELSE IF detectDefrostEnd(st, state, val, config, t) THEN "END" ELSE ""

\* _processDefrostDetection (SensorService.js 86-124) with the strategy
DegeloDoServico(st, T, state, val, config, t) ==
    IF ~st.ready THEN state
    ELSE IF detectDefrost(st, T, state, val, config, t) = "START"
    THEN [ state EXCEPT !.is_defrosting = TRUE, !.defrost_start_ts = t,
                        !.defrost_start_temp = val, !.defrost_just_started = TRUE ]
    ELSE IF detectDefrost(st, T, state, val, config, t) = "END"
    THEN [ state EXCEPT !.is_defrosting = FALSE, !.defrost_start_ts = Undefined,
                        !.defrost_start_temp = Undefined ]
    ELSE IF state.defrost_just_started
    THEN [ state EXCEPT !.defrost_just_started = FALSE ]
    ELSE state

\* _processDoorDetection (SensorService.js 129-160) with the strategy: the
\* sensor state and the detections of the sensor afterwards
PortaDoServico(st, T, state, val, config, t, history) ==
    IF ~st.ready \/ state.is_defrosting
    THEN [ state |-> state, history |-> history ]
    ELSE LET result == detectDoor(st, T, state, val, config, t, history)
         IN  [ state |-> IF result.detected
                            /\ result.newState # state.last_virtual_state
                         THEN [ state EXCEPT !.last_virtual_state = result.newState,
                                             !.last_analysis_ts = t ]
                         ELSE state,
               history |-> result.history ]

\* the sensor state when verificarSensor has updated the history (lines
\* 36-62), and the analysis of the call
EstadoAnalisado(sv, mac, config, t, ia) ==
    LET state == IF mac \in DOMAIN sv.sensorStates THEN sv.sensorStates[mac]
                 ELSE EstadoInicial
        an == AnaliseDoServico(state.history, t, isUltra(config), ia)
    IN  [ stats |-> an.stats,
          state |-> [ state EXCEPT !.history =
                          cleanHistory(addHistoryPoint(an.history, t),
                                       t - 20 * 60 * 1000) ] ]

\* the sensor state and its detections after the two detections (lines
\* 64-68)
EstadoDasEstrategias(sv, mac, leitura, config, t, ia) ==
    LET a == EstadoAnalisado(sv, mac, config, t, ia)
        T == TuningDoServico(config)
    IN  PortaDoServico(a.stats, T,
                       DegeloDoServico(a.stats, T, a.state, leitura.temp, config, t),
                       leitura.temp, config, t,
                       IF mac \in DOMAIN sv.doorStateHistory
                       THEN sv.doorStateHistory[mac] ELSE << >>)

\* SensorService.verificarSensor (lines 27-80) on the instance sv, with its
\* strategies: the instance afterwards. The analyzer's regressions give ia.
verificarSensorDoServico(sv, mac, leitura, config, t, ia) ==
    IF config.em_manutencao THEN [ sv EXCEPT !.alert = << >> ]
    ELSE LET e == EstadoDasEstrategias(sv, mac, leitura, config, t, ia)
             al == AlertasServico(sv, e.state, mac, config, leitura, t)
         IN  [ sensorStates |-> MapSet(sv.sensorStates, mac, e.state),
               alertWatchlist |-> al.porta.alertWatchlist,
               ts |-> t,
               alert |-> IF al.temp.alert # << >> THEN al.temp.alert
                         ELSE al.porta.alert,
               doorStateHistory |->
                   IF e.history = << >> THEN sv.doorStateHistory
                   ELSE MapSet(sv.doorStateHistory, mac, e.history) ]

\* a call of a formatter: its argument and result, de telling whether the
\* argument is an input or the result of the previous call
Chamada(fn, de, arg, res) == [ fn |-> fn, de |-> de, arg |-> arg, res |-> res ]
\* no formatter has been called
SemChamada == Chamada("", "", << >>, << >>)

(***************************************************************************)
(* The program                                                             *)
(***************************************************************************)
\* the state after construction, door_logs being logs
Inicio(logs) ==
    /\ now = T0
    /\ lastReadings = EmptyMap
    /\ alertControl = EmptyMap
    /\ sensorHistory = EmptyMap
    /\ alertWatchlist = EmptyMap
    /\ gatewayHeartbeats = EmptyMap
    /\ configCache = EmptyMap
    /\ secondarySensorsBlocklist = {}
    /\ dbTelemetryBuffer = << >>
    /\ dbDoorBuffer = << >>
    /\ n8nAlertBuffer = << >>
    /\ doorLogs = logs
    /\ emVoo = << >>
    /\ processo = Processo("ativo", << >>)
    /\ servico = ServicoInicial
    /\ chamada = SemChamada
    /\ obs = ObsInit

\* the first start, on an empty door_logs table
Init == Inicio(EmptyMap)

\* time the program has been receiving messages at clock t
Ativo(t) == IF t >= T0 + LongGap THEN t - T0 - LongGap ELSE t - T0

\* the analyzer results a call at time t may see: the regressions run only
\* on a ready window
AnalisesEm(mac, t, analises) ==
    IF Len(NovaJanela(mac, t)) < MIN_DATA_POINTS THEN { IA_Flat } ELSE analises

\* the readings explored at time t: before the window is ready only the
\* humidity decides what verificarSensor does
LeiturasEm(mac, t, leituras) ==
    IF Len(NovaJanela(mac, t)) < MIN_DATA_POINTS
    THEN { l \in leituras : l[1] = 0 - 60 } ELSE leituras

\* the sensor reports every Rapido for the first Rajada of activity, then
\* every Lento
PassoEm(t) == IF Ativo(t) < Rajada THEN Rapido ELSE Lento

\* a reading of the monitored sensor, on schedule
Recebe(leituras, analises, ate) ==
    \E d \in { PassoEm(now) } :
        \E l \in LeiturasEm(S1, now + d, leituras), ia \in AnalisesEm(S1, now + d, analises) :
            /\ ~Ignorado(S1)
            /\ Ativo(now + d) <= ate
            /\ Mensagem(d, G1raw, Entry(S1raw, l[1], l[2]), ia)

\* a reading of the monitored sensor; the flush and webhook timers have
\* emptied the queues since the previous one
Leitura(leituras, analises, ate) ==
    /\ dbTelemetryBuffer = << >> /\ dbDoorBuffer = << >>
    /\ n8nAlertBuffer = << >>
    /\ Recebe(leituras, analises, ate)

\* an entry of another device (the paired door sensor, a sensor that is not
\* configured, the blocklisted device), or an item of the blocklisted
\* gateway, in the same instant as the previous step
OutraLeitura ==
    \E gmac \in { G2raw, SBraw }, dmac \in { S2raw, SUraw, SBraw } :
        Mensagem(0, gmac, Entry(dmac, 0, 90), IA_Flat)

\* the store answers a refresh with an error or a table, and changes the
\* table at most MaxTrocas times
Refresh(tables) ==
    \E resp \in { << >> } \cup { << c >> : c \in tables } :
        /\ resp # << >> /\ NovoCache(resp[1]) # configCache => obs.trocas < MaxTrocas
        /\ AtualizarCacheSensores(resp)

Next ==
    \/ Leitura(Leituras, AnalisesAlerta, MaxTime)
    \/ Refresh({ TabelaNormal, TabelaManut })
    \/ FlushDB
    \/ EnviarAlertas

Spec == Init /\ [][Next]_vars

(***************************************************************************)
(* The door state across restarts and reconnections: door_logs may hold    *)
(* rows of a previous run, and every connect to the bus reloads the door   *)
(* states.                                                                 *)
(***************************************************************************)
\* door_logs as a previous run may have left it
DoorLogsIniciais ==
    { EmptyMap,
      [ m \in { S1 } |-> [ is_open |-> TRUE, timestamp_read |-> T0 - 3600000 ] ] }

InitPortas == \E logs \in DoorLogsIniciais : Inicio(logs)

NextPortas ==
    \/ Leitura(LeiturasPortas, AnalisesPorta, MaxTimePortas)
    \/ Refresh({ TabelaNormal, TabelaManut })
    \/ carregarUltimoEstadoPortas
    \/ FlushDB
    \/ EnviarAlertas
    \/ LimparEstado
    \/ Silencio

SpecPortas == InitPortas /\ [][NextPortas]_vars

\* C2: no control record has is_defrosting and last_virtual_state both true,
\* whatever the interleaving of readings, door-state reloads, configuration
\* refreshes, maintenance and garbage collection.
C2_DegeloFechaPorta ==
    \A m \in DOMAIN alertControl :
        ~(alertControl[m].is_defrosting /\ alertControl[m].last_virtual_state)

\* a sensor in defrost whose door was detected open before
C2_EmDegelo == \E m \in DOMAIN alertControl : alertControl[m].is_defrosting

(***************************************************************************)
(* Entries the handler drops, among the readings of the monitored sensor.  *)
(***************************************************************************)
NextIgnorados ==
    \/ Leitura(LeiturasPortas, { IA_Stable }, MaxTimeIgnorados)
    \/ OutraLeitura
    \/ Refresh({ TabelaNormal })
    \/ FlushDB
    \/ EnviarAlertas

SpecIgnorados == Init /\ [][NextIgnorados]_vars

\* the sensors whose entries are to be dropped: blocklisted, secondary (the
\* physical door sensor paired with a monitored one), or not configured
Descartavel(mac) ==
    \/ mac \in { SB }
    \/ \E m \in DOMAIN configCache :
           /\ Len(configCache[m].sensor_porta_vinculado) > 5
           /\ formatarMac(configCache[m].sensor_porta_vinculado) = mac
    \/ mac \notin DOMAIN configCache

\* C7: an entry of a blocklisted, secondary or unknown sensor changes no
\* sensor state (last reading, history window, alert control, watchlist) and
\* enqueues nothing.
C7_IgnoradoNadaMuda ==
    [][ \A gmac \in { G1raw, G2raw }, dmac \in { S1raw, S2raw, SUraw, SBraw } :
            ( Descartavel(formatarMac(dmac))
              /\ Mensagem(0, gmac, Entry(dmac, 0, 90), IA_Flat) )
            => UNCHANGED << lastReadings, sensorHistory, alertControl,
                            alertWatchlist, dbTelemetryBuffer, dbDoorBuffer,
                            n8nAlertBuffer >> ]_vars

\* a dropped entry came through the second gateway after the monitored
\* sensor had been processed and had a watchlist entry
C7_IgnoradoChegou ==
    /\ G2 \in DOMAIN gatewayHeartbeats
    /\ S1 \in DOMAIN lastReadings /\ S1 \in DOMAIN alertWatchlist
    /\ gatewayHeartbeats[G2].last_seen >= lastReadings[S1].ts

(***************************************************************************)
(* The history window of a sensor at constant temperature, under readings  *)
(* and health requests that come early, on time, and after a long gap.     *)
(***************************************************************************)
\* the window's span, and ten seconds less
Janela == PREDICT_WINDOW_MINS * 60 * 1000
QuaseJanela == Janela - Rapido

\* the delays explored at clock t: half a period and a period during the
\* burst and after the gap (half a period only, when t is off the grid),
\* and one gap that ends the burst
PassosHist(t) ==
    ( IF t - T0 <= RajadaHist THEN { QuaseJanela, Janela } ELSE { } )
    \cup ( IF t - T0 < RajadaHist \/ t - T0 >= QuaseJanela
           THEN IF (t - T0) % Rapido # 0 THEN { Rapido \div 2 }
                ELSE { Rapido \div 2, Rapido }
           ELSE { } )

\* a reading of the monitored sensor, whose temperature does not change
LeituraHist ==
    \E d \in PassosHist(now) :
        /\ ~Ignorado(S1)
        /\ now + d - T0 <= MaxTimeHist
        /\ dbTelemetryBuffer = << >>
        /\ Mensagem(d, G1raw, Entry(S1raw, 0 - 60, 50), IA_Flat)

\* a health request, at once or after a delay
HealthHist ==
    \E d \in { 0 } \cup PassosHist(now) :
        /\ now + d - T0 <= MaxTimeHist
        /\ d > 0 => \E m \in DOMAIN sensorHistory :
                        Len(sensorHistory[m]) > MIN_DATA_POINTS
        /\ Health(d)

NextHist ==
    \/ LeituraHist
    \/ HealthHist
    \/ Refresh({ TabelaNormal })
    \/ FlushDB

SpecHist == Init /\ [][NextHist]_vars

\* consecutive samples are at least 10 s apart and no sample is 20 min or
\* more older than the newest
JanelaBemFormada(h) ==
    /\ \A i \in 1 .. Len(h) - 1 : h[i + 1] - h[i] >= 10000
    /\ \A i \in 1 .. Len(h) : h[Len(h)] - h[i] < 1200000

\* C8: after any sequence of readings and health requests, consecutive
\* samples of a window are at least 10 s apart, none is 20 min or more older
\* than the newest, and a call less than 10 s after the newest sample leaves
\* the window unchanged.
C8_JanelaDeAmostras ==
    [][ \A m \in DOMAIN sensorHistory' :
            /\ JanelaBemFormada(sensorHistory'[m])
            /\ ( ( /\ m \in DOMAIN sensorHistory
                   /\ Len(sensorHistory[m]) > 0
                   /\ now' - sensorHistory[m][Len(sensorHistory[m])] < 10000 )
                 => sensorHistory'[m] = sensorHistory[m] ) ]_vars

\* a health request took the newest sample of a window that had been
\* trimmed, and a later call came too early to be sampled
C8_SaudeAmostrou ==
    /\ S1 \in DOMAIN sensorHistory /\ S1 \in DOMAIN lastReadings
    /\ Len(sensorHistory[S1]) > 1
    /\ now - T0 > Janela
    /\ lastReadings[S1].ts < sensorHistory[S1][Len(sensorHistory[S1])]
    /\ now > sensorHistory[S1][Len(sensorHistory[S1])]

\* C13: a GET /health request leaves the history windows, the last
\* readings, the alert control, the watchlist, the heartbeats and the three
\* queues unchanged.
C13_SaudeSoLe ==
    [][ HealthHist
            => UNCHANGED << sensorHistory, lastReadings, alertControl,
                            alertWatchlist, gatewayHeartbeats, dbTelemetryBuffer,
                            dbDoorBuffer, n8nAlertBuffer >> ]_vars

\* the newest sample of a window was taken after the sensor's last reading
C13_AmostraDaSaude ==
    \E m \in DOMAIN sensorHistory :
        /\ m \in DOMAIN lastReadings /\ Len(sensorHistory[m]) > 0
        /\ sensorHistory[m][Len(sensorHistory[m])] > lastReadings[m].ts

(***************************************************************************)
(* The flush timer with inserts that take time and may fail, so that       *)
(* records are enqueued during an insert and ticks overlap.                *)
(***************************************************************************)
RECURSIVE EmVooDe(_, _)
\* the records of the awaited calls of a sink, from the i-th call on
EmVooDe(sink, i) ==
    IF i > Len(emVoo) THEN << >>
    ELSE (IF emVoo[i].sink = sink THEN emVoo[i].batch ELSE << >>)
         \o EmVooDe(sink, i + 1)
\* how many records of a sink are not stored yet
Pendentes(sink, fila) == Len(EmVooDe(sink, 1)) + Len(fila)

\* a reading every Rapido, whatever the window, while fewer than MaxFila
\* records wait to be stored
LeituraFila ==
    \E l \in LeiturasFila(now + Rapido),
       ia \in AnalisesEm(S1, now + Rapido, { IA_Spike, IA_Cool }) :
        /\ ~Ignorado(S1)
        /\ now + Rapido - T0 <= MaxTimeFila
        /\ Pendentes("telemetry_logs", dbTelemetryBuffer) < MaxFila
        /\ Pendentes("door_logs", dbDoorBuffer) < MaxFila
        /\ Mensagem(Rapido, G1raw, Entry(S1raw, l[1], l[2]), ia)

FlushInicia == Len(emVoo) < MaxVoos /\ FlushTick
InsertResponde == \E i \in DOMAIN emVoo, r \in { "ok", "erro" } : Responde(i, r)
FlushTermina == \E i \in DOMAIN emVoo : FlushContinua(i)

NextFila ==
    \/ LeituraFila
    \/ Refresh({ TabelaNormal })
    \/ FlushInicia
    \/ InsertResponde
    \/ FlushTermina

SpecFila == Init /\ [][NextFila]_vars

\* the records of a queue are in the order in which they were enqueued
EmOrdem(fila) ==
    \A i \in 1 .. Len(fila), j \in 1 .. Len(fila) :
        i < j => fila[i].timestamp_read < fila[j].timestamp_read
\* the telemetry records of a queue are in the order in which they were enqueued
EmOrdemTs(fila) ==
    \A i \in 1 .. Len(fila), j \in 1 .. Len(fila) : i < j => fila[i].ts < fila[j].ts

\* C6: whatever inserts fail, each queue holds its records in the order in
\* which they were enqueued, none of them twice.
C6_FilaEmOrdem == EmOrdemTs(dbTelemetryBuffer) /\ EmOrdem(dbDoorBuffer)

\* two failed batches are back in a queue, the later one first
C6_ForaDeOrdem ==
    /\ emVoo = << >>
    /\ ~EmOrdemTs(dbTelemetryBuffer) \/ ~EmOrdem(dbDoorBuffer)

(***************************************************************************)
(* The webhook timer with POSTs that take time and may fail, so that       *)
(* alerts are enqueued during a POST and ticks overlap.                    *)
(***************************************************************************)
\* a reading of the monitored sensor, on schedule; the flush timer has
\* emptied its queues since the previous one
LeituraWebhook ==
    /\ dbTelemetryBuffer = << >> /\ dbDoorBuffer = << >>
    /\ Recebe({ << 0 - 60, 90 >>, << 0 - 60, 50 >> }, { IA_Stable }, MaxTime)

WebhookInicia == Len(emVoo) < MaxVoos /\ WebhookTick
PostResponde == \E i \in DOMAIN emVoo, r \in { "ok", "erro" } : Responde(i, r)
WebhookTermina == \E i \in DOMAIN emVoo : WebhookContinua(i)

NextWebhook ==
    \/ LeituraWebhook
    \/ Refresh({ TabelaNormal })
    \/ FlushDB
    \/ WebhookInicia
    \/ PostResponde
    \/ WebhookTermina

SpecWebhook == Init /\ [][NextWebhook]_vars

\* the alerts that wait in the buffer or in a POST that is awaited
AlertasPendentes ==
    Range(n8nAlertBuffer)
        \cup UNION { Range(emVoo[i].batch) :
                       i \in { k \in DOMAIN emVoo : emVoo[k].sink = "webhook" } }

\* C5: an alert leaves the outbound buffer for good only after a POST that
\* contained it returned 2xx, and a failed POST puts its whole batch back at
\* the front of the buffer: whatever POSTs fail, alerts are enqueued during a
\* POST or ticks overlap.
C5_AlertaNaoSePerde ==
    [][ /\ \A a \in AlertasPendentes :
               a \in AlertasPendentes'
               \/ \E i \in DOMAIN emVoo :
                      /\ emVoo[i].sink = "webhook" /\ emVoo[i].resposta = "ok"
                      /\ a \in Range(emVoo[i].batch)
        /\ \A i \in DOMAIN emVoo :
               ( /\ emVoo[i].sink = "webhook" /\ emVoo[i].resposta = "erro"
                 /\ Len(emVoo') < Len(emVoo) /\ emVoo' = SemVoo(i) )
               => /\ Len(n8nAlertBuffer') >= Len(emVoo[i].batch)
                  /\ SubSeq(n8nAlertBuffer', 1, Len(emVoo[i].batch)) = emVoo[i].batch
      ]_vars

\* two POSTs that overlapped have both failed: their alerts are back in the
\* buffer, those of the later POST first
C5_DuasFalhas ==
    /\ emVoo = << >>
    /\ Len(n8nAlertBuffer) > 1
    /\ n8nAlertBuffer[1].timestamp_iso > n8nAlertBuffer[2].timestamp_iso

(***************************************************************************)
(* Properties of the alert pipeline, checked under Spec.                   *)
(***************************************************************************)
\* the last step emitted an alert
Emitiu == Len(obs.alerta) > 0
\* the last step emitted an alert and the same sensor had alerted before
EmitiuDeNovo ==
    /\ Emitiu /\ Len(obs.anterior) > 0
    /\ obs.anterior[1].sensor_mac = obs.alerta[1].sensor_mac
\* time between the alert just emitted and the one before it
Intervalo == obs.alerta[1].timestamp_iso - obs.anterior[1].timestamp_iso

\* C1: a reading processed while is_defrosting is true yields no alert of any
\* kind unless its temperature is above LIMIT_TEMP_MAX + tolerance + 5 or
\* below LIMIT_TEMP_MIN - 5.
C1_DegeloSemAlerta ==
    Emitiu /\ obs.alerta[1].status_operacional = "EM_DEGELO"
        => ExtremoEmDegelo(obs.alerta[1].temp_atual, obs.alerta[1].timestamp_iso,
                           configCache[obs.alerta[1].sensor_mac])

\* C1, the case the suppression covers: on a ready window a reading taken
\* during a defrost at a temperature that is not extreme yields no alert.
C1_DegeloJanelaPronta ==
    /\ Emitiu /\ obs.alerta[1].status_operacional = "EM_DEGELO"
    /\ obs.alerta[1].ready
    => ExtremoEmDegelo(obs.alerta[1].temp_atual, obs.alerta[1].timestamp_iso,
                       configCache[obs.alerta[1].sensor_mac])

\* an alert emitted during a defrost
C1_AlertaEmDegelo == Emitiu /\ obs.alerta[1].status_operacional = "EM_DEGELO"

\* C3: an alert is preceded by a watchlist entry of the same sensor and the
\* same kind of problem, made at least the soak time of the alert's priority
\* before.
C3_EntradaDoMesmoTipo ==
    Emitiu =>
        /\ obs.alerta[1].sensor_mac \in DOMAIN alertWatchlist
        /\ alertWatchlist[obs.alerta[1].sensor_mac].msg = obs.alerta[1].mensagens
        /\ obs.alerta[1].timestamp_iso
               - alertWatchlist[obs.alerta[1].sensor_mac].first_seen
             >= IF obs.alerta[1].prioridade = "PREDITIVA" THEN 300000 ELSE 600000

\* C3 per sensor: an alert is preceded by a watchlist entry of the same
\* sensor made at least 5 minutes before.
C3_EntradaDoSensor ==
    Emitiu =>
        /\ obs.alerta[1].sensor_mac \in DOMAIN alertWatchlist
        /\ obs.alerta[1].timestamp_iso
               - alertWatchlist[obs.alerta[1].sensor_mac].first_seen >= 300000

\* C4 as stated: two consecutive alerts of a sensor are at least the cooldown
\* of the earlier alert's priority apart (60 min PREDITIVA, 15 min otherwise).
C4_CooldownDoAnterior ==
    EmitiuDeNovo =>
        Intervalo >= IF obs.anterior[1].prioridade = "PREDITIVA"
                     THEN 3600000 ELSE 900000

\* C4 amended: while the sensor's alert-control record is not deleted, two
\* consecutive alerts of a sensor are more than the cooldown of the later
\* alert's priority apart.
C4_CooldownDoAtual ==
    EmitiuDeNovo /\ ~obs.apagado =>
        Intervalo > IF obs.alerta[1].prioridade = "PREDITIVA"
                    THEN 3600000 ELSE 900000

\* a second alert of a sensor whose control record was kept
C4_SegundoAlerta == EmitiuDeNovo /\ ~obs.apagado

\* C9: every reading processed between the first_seen of the watchlist entry
\* and the alert made from it detected a problem.
C9_ProblemaContinuo == Emitiu => ~obs.limpo

\* an alert made from an entry older than the previous reading
C9_AlertaAposSoak ==
    /\ Emitiu
    /\ obs.alerta[1].timestamp_iso
           - alertWatchlist[obs.alerta[1].sensor_mac].first_seen >= 2 * Lento

\* C10: after an alert of priority ALTA or CRITICA the sensor emits no alert
\* within the next 15 minutes, provided its control record is not deleted.
C10_SilencioAposAlta ==
    /\ EmitiuDeNovo /\ ~obs.apagado
    /\ obs.anterior[1].prioridade \in { "ALTA", "CRITICA" }
    => Intervalo > 900000

\* an alert that follows an ALTA or CRITICA alert of the same sensor
C10_AlertaAposAlta ==
    /\ EmitiuDeNovo /\ ~obs.apagado
    /\ obs.anterior[1].prioridade \in { "ALTA", "CRITICA" }

\* C15: when a configuration refresh fails, the config cache and the secondary
\* blocklist keep exactly their previous contents.
C15_FalhaMantemCache ==
    [][ obs'.falhou => UNCHANGED << configCache, secondarySensorsBlocklist >> ]_vars

\* a refresh has just failed while the cache and the blocklist had contents
C15_FalhouComCache ==
    obs.falhou /\ configCache # EmptyMap /\ secondarySensorsBlocklist # {}

\* C14: a reading of a sensor in maintenance changes neither its last
\* reading, its last persisted values nor its history window, and enqueues no
\* telemetry, door or alert record.
C14_ManutencaoIgnorada ==
    [][ \A l \in Leituras, ia \in Analises :
            ( /\ S1 \in DOMAIN configCache
              /\ configCache[S1].em_manutencao
              /\ Mensagem(PassoEm(now), G1raw, Entry(S1raw, l[1], l[2]), ia) )
            => UNCHANGED << lastReadings, sensorHistory, dbTelemetryBuffer,
                            dbDoorBuffer, n8nAlertBuffer >> ]_vars

\* a reading was handled without being sampled into the history window, and
\* its telemetry record waits in the queue
C14_LeituraEmManutencao ==
    /\ S1 \in DOMAIN lastReadings
    /\ \/ S1 \notin DOMAIN sensorHistory
       \/ sensorHistory[S1][Len(sensorHistory[S1])] < lastReadings[S1].ts
    /\ Len(dbTelemetryBuffer) > 0
    /\ dbTelemetryBuffer[1].ts = lastReadings[S1].ts

\* the sensor's last persisted values before a reading
UltimoPersistido ==
    IF S1 \in DOMAIN lastReadings THEN lastReadings[S1] ELSE LastDefault
\* |temp change| >= 0.2 or |humidity change| >= 2.0 or at least 10 min since
\* the last persisted record, for a reading of temperature temp and
\* humidity hum at time t
ForaDaBandaMorta(temp, hum, t) ==
    \/ Abs(temp - UltimoPersistido.db_temp) >= DB_MIN_VAR_TEMP
    \/ Abs(hum - UltimoPersistido.db_hum) >= DB_MIN_VAR_HUM
    \/ t - UltimoPersistido.db_ts >= DB_HEARTBEAT_MS

\* C20: an accepted reading that carries a temperature enqueues a telemetry
\* record exactly when, against the last persisted values, the temperature
\* changed by 0.2 or more, the humidity by 2.0 or more, or at least 10 min
\* have passed; the last persisted values change only with a record.
C20_BandaMorta ==
    [][ \A l \in Leituras, ia \in Analises :
            ( /\ ~Ignorado(S1)
              /\ Mensagem(PassoEm(now), G1raw, Entry(S1raw, l[1], l[2]), ia) )
            => /\ ( dbTelemetryBuffer' # dbTelemetryBuffer
                      <=> ForaDaBandaMorta(l[1], l[2], now') )
               /\ ( dbTelemetryBuffer' = dbTelemetryBuffer
                      => /\ lastReadings'[S1].db_temp = UltimoPersistido.db_temp
                         /\ lastReadings'[S1].db_hum = UltimoPersistido.db_hum
                         /\ lastReadings'[S1].db_ts = UltimoPersistido.db_ts ) ]_vars

\* a reading arrived exactly 10 min after the last persisted record and was
\* not persisted
C20_DezMinutosExatos ==
    /\ S1 \in DOMAIN lastReadings
    /\ lastReadings[S1].ts = now
    /\ now - lastReadings[S1].db_ts = DB_HEARTBEAT_MS
    /\ \A i \in DOMAIN dbTelemetryBuffer : dbTelemetryBuffer[i].ts # now

(***************************************************************************)
(* The defrost cycle and the door: a burst of readings, a pause of about   *)
(* an hour, and a second burst.                                            *)
(***************************************************************************)
\* readings every Rapido during the first RajadaDegelo, one pause of
\* PausaDegelo, then every Rapido again until T0 + MaxTimeDegelo
RajadaDegelo == 130000
PausaDegelo == 3480000
MaxTimeDegelo == 3740000
\* what a reading carries while the defrost cycle is explored
LeiturasDegelo == { << 0 - 60, 50 >>, << 0, 50 >> }

PassoDegelo(t) ==
    IF t - T0 >= RajadaDegelo /\ t - T0 < RajadaDegelo + Rapido
    THEN PausaDegelo ELSE Rapido

\* a reading of the monitored sensor, on this schedule; the timers have
\* emptied the queues since the previous one
LeituraDegelo ==
    \E d \in { PassoDegelo(now) } :
        \E l \in LeiturasEm(S1, now + d, LeiturasDegelo),
           ia \in AnalisesEm(S1, now + d, AnalisesDegelo) :
            /\ ~Ignorado(S1)
            /\ now + d - T0 <= MaxTimeDegelo
            /\ dbTelemetryBuffer = << >> /\ dbDoorBuffer = << >>
            /\ n8nAlertBuffer = << >>
            /\ Mensagem(d, G1raw, Entry(S1raw, l[1], l[2]), ia)

\* no alert is emitted on this schedule: a problem is never ALERT_SOAK_TIME_MS old
NextDegelo ==
    \/ LeituraDegelo
    \/ Refresh({ TabelaNormal })
    \/ FlushDB

SpecDegelo == Init /\ [][NextDegelo]_vars

\* the sensor's control record says it is defrosting
EmDegelo(ac, mac) == mac \in DOMAIN ac /\ ac[mac].is_defrosting
\* the sensor's control record says its door is open
PortaAberta(ac, mac) == mac \in DOMAIN ac /\ ac[mac].last_virtual_state

AnaliseDe(d, ia) == analisarTendencia(S1, now + d, isUltra(configCache[S1]), ia)

\* C17: the sample that commits a defrost START leaves the sensor defrosting
\* whatever its metrics are, and a sensor stops defrosting only on a sample
\* that arrives at least 2 min after defrost_start_ts.
C17_FimSoAposDoisMinutos ==
    [][ /\ \A m \in DOMAIN alertControl \cap DOMAIN alertControl' :
               ( EmDegelo(alertControl, m) /\ ~EmDegelo(alertControl', m) )
               => now' - alertControl[m].defrost_start_ts
                      >= MIN_DEFROST_DURATION_BEFORE_END_MS
        /\ \A l \in LeiturasDegelo, ia \in AnalisesDegelo :
               ( /\ S1 \in DOMAIN configCache
                 /\ ~configCache[S1].em_manutencao
                 /\ ~EmDegelo(alertControl, S1)
                 /\ AnaliseDe(PassoDegelo(now), ia).ready
                 /\ InicioDegelo(AnaliseDe(PassoDegelo(now), ia), configCache[S1])
                 /\ Mensagem(PassoDegelo(now), G1raw, Entry(S1raw, l[1], l[2]), ia) )
               => /\ EmDegelo(alertControl', S1)
                  /\ alertControl'[S1].defrost_start_ts = now' ]_vars

\* a reading was analysed on a ready window less than 2 min after the start
\* of the defrost, at a temperature no higher than the one it started at,
\* and the sensor is still defrosting
C17_AmostraLogoAposInicio ==
    /\ EmDegelo(alertControl, S1)
    /\ alertControl[S1].defrost_start_ts < now
    /\ now - alertControl[S1].defrost_start_ts < MIN_DEFROST_DURATION_BEFORE_END_MS
    /\ S1 \in DOMAIN sensorHistory
    /\ Len(sensorHistory[S1]) >= MIN_DATA_POINTS
    /\ sensorHistory[S1][Len(sensorHistory[S1])] = now
    /\ lastReadings[S1].ts = now

\* C18: a reading of a defrosting sensor that is analysed on a ready window
\* more than 60 min after defrost_start_ts leaves the sensor not defrosting,
\* whatever the reading and the metrics are.
C18_TimeoutEncerraDegelo ==
    [][ \A l \in LeiturasDegelo, ia \in AnalisesDegelo :
            ( /\ S1 \in DOMAIN configCache
              /\ ~configCache[S1].em_manutencao
              /\ EmDegelo(alertControl, S1)
              /\ AnaliseDe(PassoDegelo(now), ia).ready
              /\ now + PassoDegelo(now) - alertControl[S1].defrost_start_ts
                     > DEFROST_CYCLE_MAX_DURATION_MS
              /\ Mensagem(PassoDegelo(now), G1raw, Entry(S1raw, l[1], l[2]), ia) )
            => ~EmDegelo(alertControl', S1) ]_vars

\* the last reading ended a defrost that had run for more than 60 min
C18_FimPorTimeout ==
    /\ obs.fim > DEFROST_CYCLE_MAX_DURATION_MS
    /\ S1 \in DOMAIN alertControl
    /\ ~alertControl[S1].is_defrosting
    /\ lastReadings[S1].ts = now

\* the reading's temperature is within [LIMIT_TEMP_MIN, LIMIT_TEMP_MAX]
DentroDaFaixa(temp, t) ==
    /\ temp >= LIMIT_TEMP_MIN(configCache[S1])
    /\ temp <= LIMIT_TEMP_MAX(configCache[S1], t)
\* |slope| < 0.1, variance < 0.5 x DOOR_VARIANCE_THRESHOLD, R2 > 0.7
Estavel(ia) ==
    /\ ia.slope < 100 /\ ia.slope > 0 - 100
    /\ 2 * ia.variance < TUNING(configCache[S1]).DOOR_VARIANCE_THRESHOLD
    /\ ia.r2 # NaN /\ ia.r2 > 700
\* the problems the hard limits raise
ProblemasDeLimite == { "TEMP_ALTA", "TEMP_BAIXA" }

\* C19: for a sensor that is not defrosting, a reading in range that is
\* analysed as stable leaves the door closed, whatever the door's state was,
\* and raises no hard-limit temperature problem.
C19_EstavelNaFaixaFecha ==
    [][ \A l \in LeiturasDegelo, ia \in AnalisesDegelo :
            ( /\ S1 \in DOMAIN configCache
              /\ ~configCache[S1].em_manutencao
              /\ ~EmDegelo(alertControl, S1)
              /\ AnaliseDe(PassoDegelo(now), ia).ready
              /\ DentroDaFaixa(l[1], now + PassoDegelo(now))
              /\ Estavel(ia)
              /\ Mensagem(PassoDegelo(now), G1raw, Entry(S1raw, l[1], l[2]), ia) )
            => /\ ~PortaAberta(alertControl', S1)
               /\ verificarSensor(S1, Entry(S1raw, l[1], l[2]), formatarMac(G1raw),
                                  now + PassoDegelo(now), ia).problema
                      \notin ProblemasDeLimite
               /\ \A i \in DOMAIN obs'.alerta :
                      obs'.alerta[i].mensagens \notin ProblemasDeLimite ]_vars

\* the door was open, and a reading in range with the spread of a stable
\* window has closed it, outside a defrost
C19_FechouPorEstabilidade ==
    /\ S1 \in DOMAIN alertControl
    /\ ~alertControl[S1].is_defrosting
    /\ ~alertControl[S1].last_virtual_state
    /\ alertControl[S1].last_variance = IA_Stable.variance
    /\ lastReadings[S1].db_ts = now
    /\ DentroDaFaixa(lastReadings[S1].db_temp, now)
    /\ \E i \in DOMAIN dbDoorBuffer :
           /\ dbDoorBuffer[i].sensor_mac = S1
           /\ dbDoorBuffer[i].timestamp_read = now
           /\ ~dbDoorBuffer[i].is_open

\* criteria1 || ... || criteria5 of the opening (lines 881-903) on the
\* metrics st
CriterioDeAbertura(st) ==
    \/ st.acceleration > TUNING(configCache[S1]).DOOR_ACCEL
    \/ st.slope > TUNING(configCache[S1]).DOOR_SLOPE
    \/ /\ st.variance > TUNING(configCache[S1]).DOOR_VARIANCE_THRESHOLD
       /\ st.slope > 500 /\ LT(st.r2, 600)
    \/ /\ st.slopeChange # Undefined /\ Abs(st.slopeChange) > 1000
       /\ st.variance > TUNING(configCache[S1]).DOOR_VARIANCE_THRESHOLD
    \/ Abs(st.jerk) > 500 /\ st.slope > 300

\* C30: a sample that finds the door closed and the sensor not defrosting,
\* is not a stable reading in range, and meets an opening criterion, leaves
\* the door open and queues an is_open = true record, whatever the closing
\* criteria say of the same metrics.
C30_AbreSemOlharFecho ==
    [][ \A l \in LeiturasDegelo, ia \in AnalisesDegelo :
            ( /\ S1 \in DOMAIN configCache
              /\ ~configCache[S1].em_manutencao
              /\ ~PortaAberta(alertControl, S1)
              /\ AnaliseDe(PassoDegelo(now), ia).ready
              /\ CriterioDeAbertura(AnaliseDe(PassoDegelo(now), ia))
              /\ ~(DentroDaFaixa(l[1], now + PassoDegelo(now)) /\ Estavel(ia))
              /\ Mensagem(PassoDegelo(now), G1raw, Entry(S1raw, l[1], l[2]), ia)
              /\ ~EmDegelo(alertControl', S1) )
            => /\ PortaAberta(alertControl', S1)
               /\ dbDoorBuffer' # << >>
               /\ dbDoorBuffer'[Len(dbDoorBuffer')].is_open ]_vars

\* a steep rise, which meets the slope criterion of an opening, was
\* analysed on a closed door and left it closed, outside a defrost
C30_SubidaNaoAbriu ==
    /\ S1 \in DOMAIN alertControl /\ S1 \in DOMAIN lastReadings
    /\ lastReadings[S1].ts = now
    /\ ~alertControl[S1].is_defrosting
    /\ ~alertControl[S1].last_virtual_state
    /\ alertControl[S1].last_variance = IA_Surge.variance
    /\ dbDoorBuffer = << >>

\* last_virtual_state of the monitored sensor in the control map ac; a
\* sensor without a record is taken as closed (line 644)
PortaDe(ac) == S1 \in DOMAIN ac /\ ac[S1].last_virtual_state

\* C29: a sample of a sensor that is not in maintenance appends one record
\* to the door queue when it changes the sensor's last_virtual_state, with
\* is_open the new state (also when a defrost start forces the door
\* closed), and leaves the door queue alone when it does not.
C29_UmRegistoPorTransicao ==
    [][ ( /\ now' > now
          /\ S1 \in DOMAIN lastReadings' /\ lastReadings'[S1].ts = now'
          /\ S1 \in DOMAIN alertControl' )
        => IF PortaDe(alertControl') # PortaDe(alertControl)
           THEN /\ Len(dbDoorBuffer') = Len(dbDoorBuffer) + 1
                /\ SubSeq(dbDoorBuffer', 1, Len(dbDoorBuffer)) = dbDoorBuffer
                /\ dbDoorBuffer'[Len(dbDoorBuffer')].sensor_mac = S1
                /\ dbDoorBuffer'[Len(dbDoorBuffer')].is_open = PortaDe(alertControl')
           ELSE dbDoorBuffer' = dbDoorBuffer ]_vars

\* the sample that started a defrost closed the open door and queued the
\* closing
C29_DegeloFechouPorta ==
    /\ S1 \in DOMAIN alertControl
    /\ alertControl[S1].is_defrosting /\ alertControl[S1].defrost_start_ts = now
    /\ dbDoorBuffer # << >>
    /\ dbDoorBuffer[Len(dbDoorBuffer)].timestamp_read = now
    /\ ~dbDoorBuffer[Len(dbDoorBuffer)].is_open

\* C22: once a reading of a sensor has been processed, the sensor's door
\* state changes only in a step that processes a reading of that sensor; a
\* reload of the stored door states leaves it alone.
C22_PortaSoMudaPorLeitura ==
    [][ \A m \in DOMAIN lastReadings \cap DOMAIN lastReadings' :
            ( /\ m \in DOMAIN alertControl /\ m \in DOMAIN alertControl'
              /\ alertControl'[m].last_virtual_state
                     # alertControl[m].last_virtual_state )
            => ( now' > now /\ lastReadings'[m].ts = now' ) ]_vars

\* the door of a sensor whose readings have been processed is open in
\* memory although the latest stored row says closed, or the reverse, and
\* no door record is waiting to be stored
C22_MemoriaDifereDoBanco ==
    /\ S1 \in DOMAIN lastReadings /\ S1 \in DOMAIN doorLogs
    /\ S1 \in DOMAIN alertControl
    /\ lastReadings[S1].ts < now
    /\ alertControl[S1].last_virtual_state # doorLogs[S1].is_open

(***************************************************************************)
(* Shutdown: one signal arrives while readings are enqueued and the flush   *)
(* timer's inserts, which the store accepts, take time.                    *)
(***************************************************************************)
MaxTimeEncerra == 60000

\* a reading every Rapido while the process runs
LeituraEncerra ==
    \E l \in LeiturasFila(now + Rapido),
       ia \in AnalisesEm(S1, now + Rapido, { IA_Stable }) :
        /\ processo.estado = "ativo"
        /\ ~Ignorado(S1)
        /\ now + Rapido - T0 <= MaxTimeEncerra
        /\ Pendentes("telemetry_logs", dbTelemetryBuffer) < MaxFila
        /\ Mensagem(Rapido, G1raw, Entry(S1raw, l[1], l[2]), ia)

\* the timers run until process.exit; the store accepts every insert
FlushEncerra == processo.estado = "ativo" /\ Len(emVoo) < MaxVoos /\ FlushTick
InsertAceito == processo.estado # "terminado" /\ \E i \in DOMAIN emVoo : Responde(i, "ok")
FlushTerminaEncerra == processo.estado # "terminado" /\ FlushTermina

NextEncerra ==
    \/ LeituraEncerra
    \/ processo.estado = "ativo" /\ Refresh({ TabelaNormal })
    \/ FlushEncerra
    \/ InsertAceito
    \/ FlushTerminaEncerra
    \/ processo.estado = "ativo" /\ shutdown
    \/ RespondeShutdown
    \/ Sair

SpecEncerra == Init /\ [][NextEncerra]_vars

\* C23: once the process has exited after a signal, no telemetry record
\* enqueued before the signal is left uninserted: not in the buffer without
\* an accepted insert of shutdown(), and not in an insert still in flight.
C23_TudoGravadoAoSair ==
    processo.estado = "terminado"
    => /\ \A i \in DOMAIN emVoo :
              emVoo[i].sink = "telemetry_logs" => emVoo[i].resposta = "ok"
       /\ dbTelemetryBuffer # << >>
              => /\ processo.insert # << >>
                 /\ processo.insert[1].resposta = "ok"
                 /\ processo.insert[1].batch = dbTelemetryBuffer

\* the process has exited and the insert of a flush tick had not been
\* answered
C23_SaiuComInsertEmVoo ==
    /\ processo.estado = "terminado"
    /\ \E i \in DOMAIN emVoo :
           /\ emVoo[i].sink = "telemetry_logs"
           /\ emVoo[i].resposta = "pendente"
           /\ emVoo[i].batch # << >>

(***************************************************************************)
(* The promotion of a lasting problem: readings every PassoPromocao, with  *)
(* one silence of PausaPromocao.                                           *)
(***************************************************************************)
PassoPromocao == 100000
PausaPromocao == 300000
\* the silence begins after the reading at T0 + SilencioPromocao
SilencioPromocao == 2500000
MaxTimePromocao == 3800000
\* in range, above the maximum, and more than 10 degrees beyond each limit
LeiturasPromocao == { << 0 - 60, 50 >>, << 0, 50 >>, << 210, 50 >>, << 0 - 210, 50 >> }

PassoPromocaoEm(t) ==
    IF t - T0 >= SilencioPromocao /\ t - T0 < SilencioPromocao + PassoPromocao
    THEN PausaPromocao ELSE PassoPromocao

\* a reading of the monitored sensor, on this schedule; the timers have
\* emptied the queues since the previous one
LeituraPromocao ==
    \E d \in { PassoPromocaoEm(now) } :
        \E l \in LeiturasEm(S1, now + d, LeiturasPromocao),
           ia \in AnalisesEm(S1, now + d, { IA_Stable }) :
            /\ ~Ignorado(S1)
            /\ now + d - T0 <= MaxTimePromocao
            /\ dbTelemetryBuffer = << >> /\ dbDoorBuffer = << >>
            /\ n8nAlertBuffer = << >>
            /\ Mensagem(d, G1raw, Entry(S1raw, l[1], l[2]), ia)

NextPromocao ==
    \/ LeituraPromocao
    \/ Refresh({ TabelaNormal })
    \/ FlushDB
    \/ EnviarAlertas

SpecPromocao == Init /\ [][NextPromocao]_vars

\* the alert's reading is beyond the violated limit by more than 10 degrees
Extremo(a) ==
    \/ a.temp_atual > a.limites.max + EXTREME_DEVIATION_C
    \/ a.temp_atual < a.limites.min - EXTREME_DEVIATION_C
\* how long the alert's sensor had been on the watchlist when it was emitted
IdadeNaWatchlist(a) == a.timestamp_iso - alertWatchlist[a.sensor_mac].first_seen

\* C21: a hard-limit alert is CRITICA when its reading is extreme and the
\* sensor has been on the watchlist for at least 30 min, and ALTA otherwise.
C21_PromocaoACritica ==
    \A i \in DOMAIN obs.alerta :
        obs.alerta[i].mensagens \in ProblemasDeLimite
        => obs.alerta[i].prioridade =
               IF /\ Extremo(obs.alerta[i])
                  /\ IdadeNaWatchlist(obs.alerta[i]) >= CALL_PERSISTENCE_MS
               THEN "CRITICA" ELSE "ALTA"

\* a hard-limit alert of an extreme reading was emitted exactly 30 min after
\* the sensor entered the watchlist
C21_TrintaMinutosExatos ==
    \E i \in DOMAIN obs.alerta :
        /\ obs.alerta[i].mensagens \in ProblemasDeLimite
        /\ Extremo(obs.alerta[i])
        /\ IdadeNaWatchlist(obs.alerta[i]) = CALL_PERSISTENCE_MS

(***************************************************************************)
(* The age of watchlist entries: no timer of the program walks the         *)
(* watchlist; an entry leaves it only when a reading of its sensor is      *)
(* normal (line 1151), in maintenance (639) or in defrost (1035).          *)
(***************************************************************************)
\* readings are explored for MaxTimePoda of activity, around one silence of
\* LongGap
MaxTimePoda == 150000
LeiturasPoda == { << 0 - 60, 50 >>, << 0 - 60, 90 >>, << 0, 50 >> }

\* a reading of the monitored sensor every Rapido, in or out of its limits;
\* the timers have emptied the queues since the previous one
LeituraPoda ==
    \E l \in LeiturasPoda, ia \in AnalisesEm(S1, now + Rapido, { IA_Stable }) :
        /\ ~Ignorado(S1)
        /\ Ativo(now + Rapido) <= MaxTimePoda
        /\ dbTelemetryBuffer = << >> /\ dbDoorBuffer = << >>
        /\ n8nAlertBuffer = << >>
        /\ Mensagem(Rapido, G1raw, Entry(S1raw, l[1], l[2]), ia)

NextPoda ==
    \/ LeituraPoda
    \/ Refresh({ TabelaNormal })
    \/ FlushDB
    \/ EnviarAlertas
    \/ LimparEstado
    \/ Silencio

SpecPoda == Init /\ [][NextPoda]_vars

\* the oldest entry a pruning of entries older than 2 x soak, run every
\* 30 min, would leave behind
IdadeMaximaPodada == 30 * 60000 + 2 * ALERT_SOAK_TIME_MS

\* C24: the watchlist holds no entry older than a pruning every 30 min of
\* the entries older than 2 x soak leaves, and no alert is emitted on such
\* an entry: after a silence or an eviction the soak starts afresh.
C24_WatchlistPodada ==
    /\ \A m \in DOMAIN alertWatchlist :
           now - alertWatchlist[m].first_seen <= IdadeMaximaPodada
    /\ \A i \in DOMAIN obs.alerta :
           obs.alerta[i].sensor_mac \in DOMAIN alertWatchlist
               => IdadeNaWatchlist(obs.alerta[i]) <= IdadeMaximaPodada

\* the first reading after a silence and an eviction alerts on the entry
\* the sensor left behind
C24_AlertaSemNovoSoak ==
    \E i \in DOMAIN obs.alerta :
        /\ obs.alerta[i].sensor_mac \in DOMAIN alertWatchlist
        /\ IdadeNaWatchlist(obs.alerta[i]) > IdadeMaximaPodada

(***************************************************************************)
(* The type of a sensor entry: the handler reads dmac, temp, humidity,     *)
(* vbatt and rssi of an entry, never its type.                             *)
(***************************************************************************)
\* the types explored: another kind of device, and no type
Tipos == { 3, Undefined }
EntryDoTipo(dmac, type, temp, humidity) ==
    [ Entry(dmac, temp, humidity) EXCEPT !.type = type ]
\* entries are explored until T0 + MaxTimeTipos
MaxTimeTipos == 150000
LeiturasTipos == { << 0 - 60, 50 >>, << 0 - 60, 90 >> }

\* an entry of the monitored sensor every Rapido, never of type 1; no
\* problem lasts the soak time before T0 + MaxTimeTipos, so no alert is
\* queued
LeituraTipos ==
    \E ty \in Tipos, l \in LeiturasTipos, ia \in AnalisesEm(S1, now + Rapido, { IA_Stable }) :
        /\ now + Rapido - T0 <= MaxTimeTipos
        /\ Pendentes("telemetry_logs", dbTelemetryBuffer) < MaxFila
        /\ Mensagem(Rapido, G1raw, EntryDoTipo(S1raw, ty, l[1], l[2]), ia)

NextTipos ==
    \/ LeituraTipos
    \/ Refresh({ TabelaNormal })
    \/ FlushDB

SpecTipos == Init /\ [][NextTipos]_vars

\* C25: while every entry received has a type other than 1, or no type, no
\* sensor has a state in memory and the three queues stay empty.
C25_SoTipoUm ==
    /\ lastReadings = EmptyMap /\ alertControl = EmptyMap
    /\ sensorHistory = EmptyMap /\ alertWatchlist = EmptyMap
    /\ dbTelemetryBuffer = << >> /\ dbDoorBuffer = << >>
    /\ n8nAlertBuffer = << >>

\* an entry of a type other than 1 left a telemetry record in the queue and
\* put its sensor on the watchlist
C25_EntradaNaFila ==
    /\ \E i \in DOMAIN dbTelemetryBuffer : dbTelemetryBuffer[i].mac = S1
    /\ S1 \in DOMAIN alertWatchlist /\ S1 \in DOMAIN sensorHistory

(***************************************************************************)
(* The door left open, in the refactored SensorService                     *)
(***************************************************************************)
\* the service is called every PassoServico until T0 + MaxTimeServico
PassoServico == 100000
MaxTimeServico == 1200000
LeiturasServico == { << 0 - 60, 50 >>, << 0, 90 >> }
\* what the door strategy may detect on a sample, and the defrost strategy
Deteccoes ==
    { [ detected |-> FALSE, newState |-> FALSE ],
      [ detected |-> TRUE, newState |-> TRUE ],
      [ detected |-> TRUE, newState |-> FALSE ] }
AcoesDegelo == { "", "START", "END" }

\* a caller passes a reading of the monitored sensor and its configuration
\* to verificarSensor of the service
ChamadaServico ==
    \E config \in { RowNormal, RowManut }, l \in LeiturasServico, ready \in BOOLEAN,
       action \in AcoesDegelo, result \in Deteccoes :
        /\ now + PassoServico - T0 <= MaxTimeServico
        /\ now' = now + PassoServico
        /\ servico' = ServicoVerificarSensor(servico, S1, Entry(S1raw, l[1], l[2]),
                                             config, now', ready, action, result)
        /\ UNCHANGED << lastReadings, alertControl, sensorHistory, alertWatchlist,
                        gatewayHeartbeats, configCache, secondarySensorsBlocklist,
                        dbTelemetryBuffer, dbDoorBuffer, n8nAlertBuffer, doorLogs,
                        emVoo, processo, chamada, obs >>

NextServico == ChamadaServico

SpecServico == Init /\ [][NextServico]_vars

\* the service has just processed a reading of the monitored sensor, whose
\* door has been open for more than 5 min and which is not defrosting
PortaAbertaDemais ==
    /\ S1 \in DOMAIN servico.sensorStates
    /\ servico.ts = now
    /\ servico.sensorStates[S1].last_virtual_state
    /\ ~servico.sensorStates[S1].is_defrosting
    /\ servico.sensorStates[S1].last_analysis_ts # Undefined
    /\ now - servico.sensorStates[S1].last_analysis_ts > 5 * 60000

\* C26: when the service has processed a reading of a sensor whose door has
\* been open for more than 5 min and which is not defrosting, a PORTA ABERTA
\* alert of the sensor was emitted within the last dedup period, and if
\* this call is the one that emitted it, it is the alert of the result.
C26_AlertaDePortaAberta ==
    PortaAbertaDemais
        => /\ WatchlistKey(S1, "PORTA_ABERTA") \in DOMAIN servico.alertWatchlist
           /\ now - servico.alertWatchlist[WatchlistKey(S1, "PORTA_ABERTA")]
                  < ALERT_SOAK_TIME_MS
           /\ servico.alertWatchlist[WatchlistKey(S1, "PORTA_ABERTA")] = now
                  => servico.alert = << AlertaServico(S1, "PORTA_ABERTA", "ALTA", now) >>

\* the door has been open for 15 min and the call returns no alert
C26_PortaAbertaSemAlerta ==
    /\ PortaAbertaDemais
    /\ now - servico.sensorStates[S1].last_analysis_ts >= 15 * 60000
    /\ servico.alert = << >>

(***************************************************************************)
(* The formatters, called on their own                                     *)
(***************************************************************************)
\* the MAC strings explored: at most MaxMac characters, among them a hex
\* digit, the colon and a line terminator
MaxMac == 5
CaracteresMac == { "A", ":", "\n" }
Cadeias == UNION { [ 1..n -> CaracteresMac ] : n \in 0..MaxMac }
\* the voltages explored: every value of MilivoltsDe..MilivoltsAte, a
\* missing value, zero and values far outside
MilivoltsDe == 2480
MilivoltsAte == 3620
Milivolts == (MilivoltsDe..MilivoltsAte) \cup { Undefined, 0 - 100, 0, 1, 5000 }

\* formatarMac(x) on a string
ChamaFormatarMac ==
    \E x \in Cadeias :
        chamada' = Chamada("formatarMac", "entrada", x, formatarMac(x))

\* formatarMac on what the previous call returned
FormataDeNovo ==
    /\ chamada.fn = "formatarMac"
    /\ chamada.de = "entrada"
    /\ chamada' = Chamada("formatarMac", "resultado", chamada.res,
                          formatarMac(chamada.res))

\* calcularBateria(mV)
ChamaCalcularBateria ==
    \E mV \in Milivolts :
        chamada' = Chamada("calcularBateria", "entrada", mV, calcularBateria(mV))

NextFormatadores ==
    /\ ChamaFormatarMac \/ FormataDeNovo \/ ChamaCalcularBateria
    /\ UNCHANGED << now, lastReadings, alertControl, sensorHistory, alertWatchlist,
                    gatewayHeartbeats, configCache, secondarySensorsBlocklist,
                    dbTelemetryBuffer, dbDoorBuffer, n8nAlertBuffer, doorLogs,
                    emVoo, processo, servico, obs >>

SpecFormatadores == Init /\ [][NextFormatadores]_vars

\* C27: formatarMac applied to its own result returns it unchanged, and
\* applied to a string that holds a colon returns the string.
C27_FormatarMacIdempotente ==
    chamada.fn = "formatarMac"
        => /\ chamada.de = "resultado" => chamada.res = chamada.arg
           /\ ":" \in Range(chamada.arg) => chamada.res = chamada.arg

\* a raw MAC got its colons and the second call left them alone
C27_SegundaChamada ==
    /\ chamada.fn = "formatarMac" /\ chamada.de = "resultado"
    /\ chamada.res = << "A", "A", ":", "A", "A", ":", "A" >>

\* C28: calcularBateria returns an integer of 0..100, 0 for a missing value
\* and at or below 2500 mV, 100 at or above 3600 mV, and never less for a
\* higher voltage than for a lower one.
C28_BateriaLimitadaEMonotona ==
    [][ chamada'.fn = "calcularBateria"
            => /\ chamada'.res \in 0..100
               /\ chamada'.arg = Undefined \/ chamada'.arg <= 2500 => chamada'.res = 0
               /\ chamada'.arg # Undefined /\ chamada'.arg >= 3600 => chamada'.res = 100
               /\ ( /\ chamada.fn = "calcularBateria"
                    /\ chamada.arg # Undefined /\ chamada'.arg # Undefined
                    /\ chamada.arg <= chamada'.arg )
                  => chamada.res <= chamada'.res ]_vars

\* a voltage between the endpoints gives a percentage between them
C28_MeiaCarga ==
    /\ chamada.fn = "calcularBateria"
    /\ chamada.arg = 3050 /\ chamada.res = 50

(***************************************************************************)
(* The gateway check: gateways that report, fall silent, are known only    *)
(* from the store, or are blocklisted.                                     *)
(***************************************************************************)
\* the clock is explored in steps of PassoGateway until T0 + MaxTimeGateways
PassoGateway == 300000
MaxTimeGateways == 5100000

\* no message arrives for PassoGateway; the webhook timer, of the same
\* period, has emptied the alert buffer
Espera ==
    /\ now + PassoGateway - T0 <= MaxTimeGateways
    /\ n8nAlertBuffer = << >>
    /\ now' = now + PassoGateway
    /\ obs' = ObsAvanca
    /\ UNCHANGED << lastReadings, alertControl, sensorHistory, alertWatchlist,
                    gatewayHeartbeats, configCache, secondarySensorsBlocklist,
                    dbTelemetryBuffer, dbDoorBuffer, n8nAlertBuffer, doorLogs, emVoo,
                    processo,
                    servico, chamada >>

\* an item of a gateway that carries an entry of a sensor which is not
\* configured
MensagemGateway == Mensagem(0, G1raw, Entry(SUraw, 0, 90), IA_Flat)

\* what the store may answer to the query of sincronizarGatewaysConhecidos
\* at time t: an error, no row, or rows written by this or another instance
RespostasLogs(t) ==
    { << >>, << << >> >>,
      << << Log(G2raw, t - 300000), Log(G2raw, t - 1200000) >> >>,
      << << Log(G1raw, t - 1200000), Log(SBraw, t - 1200000) >> >> }

\* the re-seed runs at start-up and then every 30 min
SincronizaGateways ==
    /\ (now - T0) % (30 * 60 * 1000) = 0
    /\ \E resp \in RespostasLogs(now) : sincronizarGatewaysConhecidos(resp)

NextGateways ==
    \/ Espera
    \/ MensagemGateway
    \/ SincronizaGateways
    \/ VerificarGateways
    \/ EnviarAlertas

SpecGateways == Init /\ [][NextGateways]_vars

\* C11: a SISTEMA alert is enqueued for a gateway only when nothing was
\* received from it for more than 15 min and its previous SISTEMA alert is at
\* least 1 h old, whatever the re-seed of the heartbeats from the store does.
C11_AlertaDeGateway ==
    \A g \in DOMAIN obs.sistema :
        /\ obs.sistema[g].antes # Undefined
               => obs.sistema[g].ts - obs.sistema[g].antes >= 60 * 60 * 1000
        /\ obs.sistema[g].ouvido # Undefined
               => obs.sistema[g].ts - obs.sistema[g].ouvido > 15 * 60 * 1000

\* a gateway that had reported got its second SISTEMA alert
C11_SegundoAlerta ==
    \E g \in DOMAIN obs.sistema :
        obs.sistema[g].antes # Undefined /\ obs.sistema[g].ouvido # Undefined

\* how many SISTEMA alerts of gateway g a buffer holds
AlertasDe(g, fila) ==
    Cardinality({ i \in DOMAIN fila :
                    fila[i].prioridade = "SISTEMA" /\ fila[i].sensor_mac = g })

\* C12: a gateway of the heartbeat map that is not blocklisted, has been
\* silent for more than 15 min and had no SISTEMA alert in the last hour gets
\* exactly one alert at the next gateway check.
C12_UmAlertaPorGateway ==
    [][ \A g \in DOMAIN gatewayHeartbeats :
            ( /\ g \notin HARDCODED_BLOCKLIST
              /\ now - gatewayHeartbeats[g].last_seen > 15 * 60 * 1000
              /\ ( g \in DOMAIN obs.sistema
                       => now - obs.sistema[g].ts >= 60 * 60 * 1000 )
              /\ VerificarGateways )
            => AlertasDe(g, n8nAlertBuffer') = AlertasDe(g, n8nAlertBuffer) + 1
      ]_vars

\* the check alerted two silent gateways in one tick
C12_DoisGateways ==
    /\ Len(n8nAlertBuffer) = 2
    /\ AlertasDe(G1, n8nAlertBuffer) = 1 /\ AlertasDe(G2, n8nAlertBuffer) = 1
    /\ n8nAlertBuffer[1].timestamp_iso = n8nAlertBuffer[2].timestamp_iso

(***************************************************************************)
(* The service with its strategies: a caller passes a reading of the       *)
(* monitored sensor every PassoEstrategia.                                 *)
(***************************************************************************)
PassoEstrategia == 20000
MaxTimeEstrategia == 280000
\* slow, irregular cooling
IA_Drift == Stats(0 - 200, 600, 300, 0, 0, FALSE, FALSE, 0, 0, Undefined)
AnalisesEstrategia == { IA_Stable, IA_Spike, IA_Surge, IA_Cool, IA_Rise, IA_Drift }

\* the analyzer results a call of the service at time t may see
AnalisesNoServico(sv, mac, config, t, analises) ==
    { ia \in analises \cup { IA_Flat } :
        IF EstadoAnalisado(sv, mac, config, t, ia).stats.ready
        THEN ia \in analises ELSE ia = IA_Flat }

\* verificarSensor of the service, on a reading within the limits
ChamadaEstrategias ==
    \E ia \in AnalisesNoServico(servico, S1, RowNormal, now + PassoEstrategia,
                                AnalisesEstrategia) :
        /\ now + PassoEstrategia - T0 <= MaxTimeEstrategia
        /\ now' = now + PassoEstrategia
        /\ servico' = verificarSensorDoServico(servico, S1, Entry(S1raw, 0 - 60, 50),
                                               RowNormal, now', ia)
        /\ UNCHANGED << lastReadings, alertControl, sensorHistory, alertWatchlist,
                        gatewayHeartbeats, configCache, secondarySensorsBlocklist,
                        dbTelemetryBuffer, dbDoorBuffer, n8nAlertBuffer, doorLogs,
                        emVoo, processo, chamada, obs >>

NextEstrategias == ChamadaEstrategias

SpecEstrategias == Init /\ [][NextEstrategias]_vars

\* the door of a sensor as the service holds it, closed for a sensor it has
\* no state of
PortaNoServico(sv, mac) ==
    mac \in DOMAIN sv.sensorStates /\ sv.sensorStates[mac].last_virtual_state
\* the detections the door strategy of the service holds for a sensor
DeteccoesDe(sv, mac) ==
    IF mac \in DOMAIN sv.doorStateHistory THEN sv.doorStateHistory[mac] ELSE << >>
\* the detections the last call of the service added for a sensor
Candidatos(sv, mac) ==
    { i \in DOMAIN DeteccoesDe(sv, mac) : DeteccoesDe(sv, mac)[i].timestamp = sv.ts }
\* the confirmation window of a target state
JanelaDeConfirmacao(newState) == IF newState THEN 30 * 1000 ELSE 60 * 1000

\* C31: when a call changes the door state of a sensor on a candidate whose
\* confidence is not HIGH, the strategy already held a detection of the
\* same target state for that sensor within the confirmation window (30 s
\* for an open, 60 s for a close): a single isolated detection leaves the
\* door state as it was.
C31_DuasDeteccoesNaJanela ==
    [][ \A mac \in DOMAIN servico'.sensorStates :
          ( /\ PortaNoServico(servico', mac) # PortaNoServico(servico, mac)
            /\ \E i \in Candidatos(servico', mac) :
                   DeteccoesDe(servico', mac)[i].confidence # "HIGH" )
          => \E j \in DOMAIN DeteccoesDe(servico, mac) :
                 /\ DeteccoesDe(servico, mac)[j].state = PortaNoServico(servico', mac)
                 /\ DeteccoesDe(servico, mac)[j].timestamp < servico'.ts
                 /\ servico'.ts - DeteccoesDe(servico, mac)[j].timestamp
                        < JanelaDeConfirmacao(PortaNoServico(servico', mac)) ]_vars

\* the call has just opened the door on a candidate of confidence LOW, the
\* second detection of an opening within 30 s
C31_SegundaDeteccaoAbre ==
    /\ PortaNoServico(servico, S1)
    /\ servico.sensorStates[S1].last_analysis_ts = servico.ts
    /\ \E i, j \in DOMAIN DeteccoesDe(servico, S1) :
           /\ DeteccoesDe(servico, S1)[i].state
           /\ DeteccoesDe(servico, S1)[i].confidence = "LOW"
           /\ DeteccoesDe(servico, S1)[i].timestamp = servico.ts
           /\ DeteccoesDe(servico, S1)[j].state
           /\ DeteccoesDe(servico, S1)[j].confidence = "LOW"
           /\ DeteccoesDe(servico, S1)[j].timestamp = servico.ts - PassoEstrategia

\* the candidate the sample of a call is for a sensor that is not
\* defrosting: "abre" or "fecha" with the number of criteria the sample
\* satisfies, none on a stable temperature within the limits or when no
\* criterion holds
CandidatoDaAmostra(sv, mac, leitura, config, t, ia) ==
    LET a == EstadoAnalisado(sv, mac, config, t, ia)
        T == TuningDoServico(config)
        estavel == /\ GE(leitura.temp, config.temp_min) /\ LE(leitura.temp, config.temp_max)
                   /\ Abs(a.stats.slope) < 100
                   /\ 2 * a.stats.variance < T.DOOR_VARIANCE_THRESHOLD
                   /\ GT(a.stats.r2, 700)
    IN  IF ~a.stats.ready \/ estavel THEN [ alvo |-> "", criterios |-> 0 ]
        ELSE IF ~a.state.last_virtual_state
        THEN [ alvo |-> "abre",
               criterios |-> Atendidos(CriteriosAbertura(a.stats, T)) ]
        ELSE [ alvo |-> "fecha",
               criterios |-> Atendidos(CriteriosFecho(a.stats, a.state, T)) ]

\* C32: a sample that satisfies at least 3 open criteria on a closed door,
\* or at least 2 close criteria on an open door, of a sensor that is not
\* defrosting before or after the call, changes the door state in that
\* same call.
C32_AltaConfiancaCompromete ==
    [][ \A ia \in AnalisesEstrategia :
          ( /\ servico' = verificarSensorDoServico(servico, S1, Entry(S1raw, 0 - 60, 50),
                                                   RowNormal, now', ia)
            /\ S1 \in DOMAIN servico.sensorStates
            /\ ~servico.sensorStates[S1].is_defrosting
            /\ ~servico'.sensorStates[S1].is_defrosting
            /\ LET c == CandidatoDaAmostra(servico, S1, Entry(S1raw, 0 - 60, 50),
                                           RowNormal, now', ia)
               IN  \/ c.alvo = "abre" /\ c.criterios >= 3
                   \/ c.alvo = "fecha" /\ c.criterios >= 2 )
          => PortaNoServico(servico', S1) # PortaNoServico(servico, S1) ]_vars

\* the call has seen two close criteria on an open door, the first close
\* detection of the sensor, and the door is still open
C32_FechoNaoConfirmado ==
    /\ PortaNoServico(servico, S1)
    /\ ~servico.sensorStates[S1].is_defrosting
    /\ servico.sensorStates[S1].last_analysis_ts < servico.ts
    /\ \E i \in Candidatos(servico, S1) :
           /\ ~DeteccoesDe(servico, S1)[i].state
           /\ Atendidos(DeteccoesDe(servico, S1)[i].criteria) >= 2
           /\ \A j \in DOMAIN DeteccoesDe(servico, S1) :
                  j # i => DeteccoesDe(servico, S1)[j].state

\* how long the defrost cycle of a sensor has run at time t
DuracaoDoDegelo(sv, mac, t) == t - sv.sensorStates[mac].defrost_start_ts

\* C33: when a call ends the defrost cycle of a sensor on a sample that meets
\* no end criterion other than the recovered temperature, the cycle has run
\* at least 5 min.
C33_RecuperadaSoAposCincoMinutos ==
    [][ \A ia \in AnalisesEstrategia :
          ( /\ servico' = verificarSensorDoServico(servico, S1, Entry(S1raw, 0 - 60, 50),
                                                   RowNormal, now', ia)
            /\ S1 \in DOMAIN servico.sensorStates
            /\ servico.sensorStates[S1].is_defrosting
            /\ ~servico'.sensorStates[S1].is_defrosting
            /\ ~OutroCriterioDeFim(EstadoAnalisado(servico, S1, RowNormal, now', ia).stats,
                                   servico.sensorStates[S1], RowNormal, now') )
          => DuracaoDoDegelo(servico, S1, now') >= DEFROST_CYCLE_MIN_DURATION_MS ]_vars

\* a defrost cycle has run for more than 2 min and less than 5 min, and the
\* temperature is the one it started at
C33_CicloDeTresMinutos ==
    /\ S1 \in DOMAIN servico.sensorStates
    /\ servico.sensorStates[S1].is_defrosting
    /\ ~servico.sensorStates[S1].defrost_just_started
    /\ servico.sensorStates[S1].defrost_start_temp = 0 - 60
    /\ DuracaoDoDegelo(servico, S1, servico.ts + PassoEstrategia)
           > DEFROST_DETECTION.MIN_DURATION_BEFORE_END_MS
    /\ DuracaoDoDegelo(servico, S1, servico.ts + PassoEstrategia)
           < DEFROST_CYCLE_MIN_DURATION_MS

\* the samples the service holds of a sensor, none for a sensor it has no
\* state of
HistoricoNoServico(sv, mac) ==
    IF mac \in DOMAIN sv.sensorStates THEN sv.sensorStates[mac].history ELSE << >>

\* C34: after a call of the service the history of a sensor holds no two
\* samples less than 10 s apart, and the call has added at most one sample
\* to it.
C34_UmaAmostraPorDezSegundos ==
    [][ \A mac \in DOMAIN servico'.sensorStates :
          /\ \A i, j \in DOMAIN HistoricoNoServico(servico', mac) :
                 i < j => HistoricoNoServico(servico', mac)[j]
                              - HistoricoNoServico(servico', mac)[i]
                                  >= DATA_SAMPLE_INTERVAL_SEC * 1000
          /\ Len(HistoricoNoServico(servico', mac))
                 <= Len(HistoricoNoServico(servico, mac)) + 1 ]_vars

\* the first reading of a sensor has left two samples of the same instant
\* in its history
C34_AmostraDuplicada ==
    /\ Len(HistoricoNoServico(servico, S1)) = 2
    /\ HistoricoNoServico(servico, S1)[1] = servico.ts
    /\ HistoricoNoServico(servico, S1)[2] = servico.ts

\* C35: no sensor state of the service is defrosting with its door open.
C35_DegeloFechaPorta ==
    \A mac \in DOMAIN servico.sensorStates :
        ~( /\ servico.sensorStates[mac].is_defrosting
           /\ servico.sensorStates[mac].last_virtual_state )

\* the call has just committed a defrost START on a sensor whose door was
\* opened by an earlier call, and the door is still open
C35_DegeloComPortaAberta ==
    /\ S1 \in DOMAIN servico.sensorStates
    /\ servico.sensorStates[S1].is_defrosting
    /\ servico.sensorStates[S1].defrost_start_ts = servico.ts
    /\ servico.sensorStates[S1].last_virtual_state
    /\ servico.sensorStates[S1].last_analysis_ts < servico.ts

(***************************************************************************)
(* A window that is never ready: the sensor reports every Lento, so its    *)
(* window of 20 min holds at most 4 samples.                               *)
(***************************************************************************)
MaxTimeJanela == 1500000
\* within the limits, too humid, above the maximum, far below the minimum
LeiturasJanela == { << 0 - 60, 50 >>, << 0 - 60, 90 >>, << 0, 50 >>, << 0 - 210, 50 >> }

\* a reading of the monitored sensor every Lento; the timers have emptied
\* the queues since the previous one
LeituraJanela ==
    \E l \in LeiturasJanela, ia \in AnalisesEm(S1, now + Lento, { IA_Stable }) :
        /\ ~Ignorado(S1)
        /\ now + Lento - T0 <= MaxTimeJanela
        /\ dbTelemetryBuffer = << >> /\ dbDoorBuffer = << >>
        /\ n8nAlertBuffer = << >>
        /\ Mensagem(Lento, G1raw, Entry(S1raw, l[1], l[2]), ia)

NextJanela ==
    \/ LeituraJanela
    \/ Refresh({ TabelaNormal })
    \/ FlushDB
    \/ EnviarAlertas

SpecJanela == Init /\ [][NextJanela]_vars

ProblemasDeUmidade == { "UMID_ALTA", "UMID_BAIXA" }

\* C37: a reading of a sensor whose window holds fewer than 10 samples,
\* the reading included, leaves the sensor off the watchlist and queues no
\* alert unless its humidity is beyond a limit, and an alert it queues is a
\* humidity alert.
C37_SoUmidadeSemJanela ==
    [][ \A l \in LeiturasJanela, ia \in { IA_Flat, IA_Stable } :
          ( /\ S1 \in DOMAIN configCache
            /\ ~configCache[S1].em_manutencao
            /\ Len(NovaJanela(S1, now')) < MIN_DATA_POINTS
            /\ Mensagem(now' - now, G1raw, Entry(S1raw, l[1], l[2]), ia) )
          => /\ ProblemaUmidade(Entry(S1raw, l[1], l[2]), configCache[S1]) = "NENHUM"
                  => /\ S1 \notin DOMAIN alertWatchlist'
                     /\ n8nAlertBuffer' = n8nAlertBuffer
             /\ S1 \in DOMAIN alertWatchlist'
                  => alertWatchlist'[S1].msg \in ProblemasDeUmidade
             /\ \A i \in DOMAIN n8nAlertBuffer' :
                    i > Len(n8nAlertBuffer)
                        => n8nAlertBuffer'[i].mensagens \in ProblemasDeUmidade ]_vars

\* the sensor has read 0.0 C, above its maximum, for 10 min on a window of
\* fewer than 10 samples, and is not on the watchlist
C37_AcimaDoMaximoSemJanela ==
    /\ S1 \in DOMAIN lastReadings /\ S1 \in DOMAIN sensorHistory
    /\ lastReadings[S1].ts = now
    /\ lastReadings[S1].db_temp = 0
    /\ now - lastReadings[S1].db_ts >= ALERT_SOAK_TIME_MS
    /\ Len(sensorHistory[S1]) < MIN_DATA_POINTS
    /\ S1 \notin DOMAIN alertWatchlist

\* the alerts _processAlerts returns
ProblemasDoServico == { "TEMP_BAIXA", "TEMP_ALTA", "UMID_ALTA", "UMID_BAIXA" }

\* C36: a call of the service returns a temperature or humidity alert only
\* when the problem has been on the watchlist of the service for
\* ALERT_SOAK_TIME_MS: the first reading that shows a problem returns no
\* alert.
C36_AlertaSoAposSoak ==
    [][ ( /\ servico'.ts = now'
          /\ servico'.alert # << >>
          /\ servico'.alert[1].mensagens \in ProblemasDoServico )
        => LET key == WatchlistKey(servico'.alert[1].sensor_mac,
                                   servico'.alert[1].mensagens)
           IN  /\ key \in DOMAIN servico.alertWatchlist
               /\ now' - servico.alertWatchlist[key] >= ALERT_SOAK_TIME_MS ]_vars

\* the first call of the service, on a reading too humid, has returned a
\* humidity alert
C36_AlertaNaPrimeiraLeitura ==
    /\ now = T0 + PassoServico
    /\ servico.ts = now
    /\ servico.alert = << AlertaServico(S1, "UMID_ALTA", "ALTA", now) >>
    /\ servico.alertWatchlist = MapSet(EmptyMap, WatchlistKey(S1, "UMID_ALTA"), now)

\* the door record of sensor mac enqueued last in this run, once the flush
\* timer has emptied the queue: the latest row the store holds for mac
RegistoAnterior(mac) ==
    IF mac \in DOMAIN doorLogs /\ doorLogs[mac].timestamp_read > T0
    THEN << doorLogs[mac] >> ELSE << >>

\* C38: a door record enqueued for a sensor carries the is_open value the
\* previous record enqueued for that sensor in this run does not carry,
\* among readings, reloads of the door states, refreshes, maintenance and
\* the eviction of idle sensors.
C38_RegistosAlternam ==
    [][ ( /\ dbDoorBuffer = << >>
          /\ Len(dbDoorBuffer') = 1
          /\ RegistoAnterior(dbDoorBuffer'[1].sensor_mac) # << >> )
        => dbDoorBuffer'[1].is_open
               # RegistoAnterior(dbDoorBuffer'[1].sensor_mac)[1].is_open ]_vars

\* two openings of the monitored sensor enqueued in a row: the second is in
\* the queue and the first, of this run, is the latest the store holds
C38_DuasAberturasSeguidas ==
    /\ Len(dbDoorBuffer) = 1
    /\ dbDoorBuffer[1].sensor_mac = S1
    /\ dbDoorBuffer[1].is_open
    /\ RegistoAnterior(S1) # << >>
    /\ RegistoAnterior(S1)[1].is_open
    /\ RegistoAnterior(S1)[1].timestamp_read < dbDoorBuffer[1].timestamp_read


(***************************************************************************)
(* The store inserts of the flush timer and of shutdown(): readings are    *)
(* enqueued, the timer's inserts take time and may fail, and up to         *)
(* MaxSinais signals arrive; the timer keeps firing until process.exit.    *)
(***************************************************************************)
MaxTimeRepetidos == 40000

\* a reading every Rapido while the process runs
LeituraRepetidos ==
    \E l \in LeiturasFila(now + Rapido),
       ia \in AnalisesEm(S1, now + Rapido, { IA_Stable }) :
        /\ processo.estado = "ativo"
        /\ ~Ignorado(S1)
        /\ now + Rapido - T0 <= MaxTimeRepetidos
        /\ Pendentes("telemetry_logs", dbTelemetryBuffer) < MaxFila
        /\ Mensagem(Rapido, G1raw, Entry(S1raw, l[1], l[2]), ia)

\* the flush timer fires, also while a shutdown() awaits its insert
FlushRepetidos == processo.estado # "terminado" /\ Len(emVoo) < MaxVoos /\ FlushTick
\* the store accepts or refuses an insert of the timer
InsertRepetidos ==
    /\ processo.estado # "terminado"
    /\ \E i \in DOMAIN emVoo, resposta \in { "ok", "erro" } : Responde(i, resposta)

NextRepetidos ==
    \/ LeituraRepetidos
    \/ processo.estado = "ativo" /\ Refresh({ TabelaNormal })
    \/ FlushRepetidos
    \/ InsertRepetidos
    \/ FlushTerminaEncerra
    \/ shutdown
    \/ RespondeShutdown
    \/ Sair

SpecRepetidos == Init /\ [][NextRepetidos]_vars

\* C39: no telemetry record is accepted by the store more than once, among
\* flush ticks, inserts that take time or fail, and the inserts of shutdown
\* (a tick during the awaited shutdown insert, a second signal).
C39_GravadoUmaSoVez == obs.repetidos = {}

\* a flush tick fired while shutdown() awaited its insert, and the store
\* accepted the same record from both
C39_TickDuranteOShutdown ==
    /\ Len(processo.insert) = 1
    /\ processo.insert[1].resposta = "ok"
    /\ \E i \in DOMAIN emVoo :
           /\ emVoo[i].sink = "telemetry_logs"
           /\ emVoo[i].resposta = "ok"
           /\ emVoo[i].batch = processo.insert[1].batch
    /\ Chaves(processo.insert[1].batch) \subseteq obs.repetidos
    /\ obs.repetidos # {}

====
